---------------------------- MODULE Spec2Model ----------------------------
(***************************************************************************)
(* A model of python/mypy_protobuf.py, the protoc plugin that writes mypy  *)
(* stubs (.pyi) for the files of a CodeGeneratorRequest.                   *)
(*                                                                         *)
(* Text is kept as TLA+ strings, on which TLC evaluates Len, \o and        *)
(* SubSeq.  Python semantics assumed: Python 3 (>= 3.7), where a dict      *)
(* iterates in insertion order and a set of strings iterates in an order   *)
(* that depends on the process's hash seed; assert statements are enabled. *)
(* An exception is the writer's (or the process's) ok flag turning FALSE:  *)
(* nothing catches exceptions in the program, so the process terminates.   *)
(***************************************************************************)
EXTENDS Naturals, Sequences, FiniteSets, TLC

VARIABLES
    entry,        \* the console entry point run: "main" or "grpc"
    stdin,        \* what the process reads: [wellformed, request]
    hashseed,     \* the process's string hash seed (set iteration order)
    pc,           \* position of the process
    request,      \* the parsed CodeGeneratorRequest
    descriptors,  \* the Descriptors object
    todo,         \* the items of descriptors.to_generate not yet iterated
    pkg_writer,   \* the PkgWriter of the file being emitted
    stack,        \* the frames of write_messages that are open
    response,     \* response.file: the entries added so far
    stdout,       \* what the process has written to its output stream
    stderr,       \* the diagnostics printed
    run,          \* how many times the process has been started on stdin
    prev_stdout,  \* the output stream of the previous run
    prev_hashseed, \* the hash seed of the previous run
    requested,    \* the calls made on pkg_writer: (arguments, value returned)
    rendered,     \* the text write() returned last
    last_call,    \* the last call made on pkg_writer from outside
    calls         \* how many calls were made on pkg_writer from outside

vars == <<entry, stdin, hashseed, pc, request, descriptors, todo, pkg_writer,
          stack, response, stdout, stderr, run, prev_stdout, prev_hashseed,
          requested, rendered, last_call, calls>>

\* the variables of the calls made on a writer from outside
callvars == <<requested, rendered, last_call, calls>>

----------------------------------------------------------------------------
(* Python str operations *)

\* The characters that occur, in code point order.
Alphabet ==
    " \"'(),-./0123456789:=ABCDEFGHIJKLMNOPQRSTUVWXYZ[]_abcdefghijklmnopqrstuvwxyz{}"

Char(s, i) == SubSeq(s, i, i)

Ord(c) == CHOOSE i \in 1..Len(Alphabet) : Char(Alphabet, i) = c

\* s[i:] with a 0-based i >= 0
From(s, i) == SubSeq(s, i + 1, Len(s))

\* s[:-n]
DropLast(s, n) == SubSeq(s, 1, Len(s) - n)

startswith(s, prefix) ==
    /\ Len(prefix) <= Len(s)
    /\ SubSeq(s, 1, Len(prefix)) = prefix

endswith(s, suffix) ==
    /\ Len(suffix) <= Len(s)
    /\ SubSeq(s, Len(s) - Len(suffix) + 1, Len(s)) = suffix

\* sub in s
Contains(s, sub) ==
    \E i \in 1..(Len(s) + 1) : startswith(From(s, i - 1), sub)

\* the positions of the character c in s, in increasing order
Positions(s, c) ==
    LET at == {i \in 1..Len(s) : Char(s, i) = c}
    IN  [k \in 1..Cardinality(at) |->
            CHOOSE i \in at : Cardinality({j \in at : j < i}) = k - 1]

\* s.split(sep), sep a single character
split(s, sep) ==
    LET at == Positions(s, sep)
        n == Len(at)
    IN  [k \in 1..(n + 1) |->
            SubSeq(s, IF k = 1 THEN 1 ELSE at[k - 1] + 1,
                      IF k = n + 1 THEN Len(s) ELSE at[k] - 1)]

\* sep.join(parts)
RECURSIVE join(_, _)
join(sep, parts) ==
    IF Len(parts) = 0 THEN ""
    ELSE IF Len(parts) = 1 THEN parts[1]
    ELSE LET half == Len(parts) \div 2
         IN  join(sep, SubSeq(parts, 1, half)) \o sep
                 \o join(sep, SubSeq(parts, half + 1, Len(parts)))

\* s.replace(old, new), old a single character
replace(s, old, new) == join(new, split(s, old))

\* s.rsplit(sep, 1), sep a single character: one element when sep is absent
rsplit1(s, sep) ==
    LET at == Positions(s, sep)
    IN  IF Len(at) = 0 THEN <<s>>
        ELSE <<SubSeq(s, 1, at[Len(at)] - 1),
               SubSeq(s, at[Len(at)] + 1, Len(s))>>

\* a < b on str: code point order, a proper prefix first
StrLess(a, b) ==
    LET differ == {i \in 1..Len(a) : i > Len(b) \/ Char(a, i) # Char(b, i)}
    IN  IF differ = {} THEN Len(a) < Len(b)
        ELSE LET i == CHOOSE i \in differ : \A j \in differ : i <= j
             IN  i <= Len(b) /\ Ord(Char(a, i)) < Ord(Char(b, i))

\* line.format(*args): each "{}" of line replaced by the next argument
RECURSIVE format(_, _)
format(line, args) ==
    LET at == {i \in 1..(Len(line) - 1) : SubSeq(line, i, i + 1) = "{}"}
    IN  IF at = {} THEN line
        ELSE LET i == CHOOSE i \in at : \A j \in at : i <= j
             IN  SubSeq(line, 1, i - 1) \o args[1]
                     \o format(From(line, i + 1), Tail(args))

----------------------------------------------------------------------------
(* Module constants *)

GENERATED == "@ge" \o "nerated"

HEADER == format("# {} by generate_proto_mypy_stubs.py.  Do not edit!\n", <<GENERATED>>)

PYTHON_RESERVED ==
    {"False", "None", "True", "and", "as", "async", "await", "assert",
     "break", "class", "continue", "def", "del", "elif", "else", "except",
     "finally", "for", "from", "global", "if", "import", "in", "is",
     "lambda", "nonlocal", "not", "or", "pass", "raise", "return", "try",
     "while", "with", "yield"}

PY2_ONLY_BUILTINS == {"buffer", "unicode"}

_mangle_builtin(name) == format("builtin___{}", <<name>>)

_mangle_message(name) == format("type___{}", <<name>>)

\* The tags of FieldDescriptorProto.Type that python_type's table holds.
FloatTypes == {"TYPE_DOUBLE", "TYPE_FLOAT"}

IntTypes ==
    {"TYPE_INT64", "TYPE_UINT64", "TYPE_FIXED64", "TYPE_SFIXED64",
     "TYPE_SINT64", "TYPE_INT32", "TYPE_UINT32", "TYPE_FIXED32",
     "TYPE_SFIXED32", "TYPE_SINT32"}

MappedTypes ==
    FloatTypes \cup IntTypes \cup
    {"TYPE_BOOL", "TYPE_STRING", "TYPE_BYTES", "TYPE_ENUM", "TYPE_MESSAGE",
     "TYPE_GROUP"}

is_scalar(fd) == ~(fd.type = "TYPE_MESSAGE" \/ fd.type = "TYPE_GROUP")

----------------------------------------------------------------------------
(* Python containers *)

\* d[key].add(item) on a defaultdict(set)
DictSetAdd(d, key, item) ==
    IF key \in DOMAIN d
    THEN [d EXCEPT ![key] = @ \cup {item}]
    ELSE d @@ (key :> {item})

\* d[key] = value on a dict kept as the sequence of its (key, value) items
\* in insertion order: a key already present keeps its place
RECURSIVE ODictSet(_, _, _)
ODictSet(d, key, value) ==
    IF d = <<>> THEN << <<key, value>> >>
    ELSE IF d[1][1] = key THEN << <<key, value>> >> \o Tail(d)
    ELSE <<d[1]>> \o ODictSet(Tail(d), key, value)

ODictHas(d, key) == \E i \in 1..Len(d) : d[i][1] = key

ODictGet(d, key) == d[CHOOSE i \in 1..Len(d) : d[i][1] = key][2]

\* The elements of a set in one fixed order
RECURSIVE SetToSeq(_)
SetToSeq(S) ==
    IF S = {} THEN <<>>
    ELSE LET x == CHOOSE x \in S : TRUE
         IN  <<x>> \o SetToSeq(S \ {x})

\* Iterating a set: an order that the process's hash seed decides
IterSet(S, seed) ==
    LET q == SetToSeq(S)
        n == Len(q)
        k == IF n = 0 THEN 0 ELSE seed % n
    IN  SubSeq(q, k + 1, n) \o SubSeq(q, 1, k)

\* sorted(xs) of a list of str
RECURSIVE InsertStr(_, _)
InsertStr(sorted, x) ==
    IF sorted = <<>> THEN <<x>>
    ELSE IF StrLess(x, sorted[1]) THEN <<x>> \o sorted
    ELSE <<sorted[1]>> \o InsertStr(Tail(sorted), x)

RECURSIVE SortedStrs(_)
SortedStrs(xs) ==
    IF xs = <<>> THEN <<>>
    ELSE InsertStr(SortedStrs(Tail(xs)), xs[1])

\* a < b on tuples whose first component is a str and decides
\* (the second is compared only between equal firsts)
TupleLess(a, b) ==
    \/ StrLess(a[1], b[1])
    \/ a[1] = b[1] /\ StrLess(a[2], b[2])

RECURSIVE InsertTuple(_, _)
InsertTuple(sorted, x) ==
    IF sorted = <<>> THEN <<x>>
    ELSE IF TupleLess(x, sorted[1]) THEN <<x>> \o sorted
    ELSE <<sorted[1]>> \o InsertTuple(Tail(sorted), x)

RECURSIVE SortedTuples(_)
SortedTuples(xs) ==
    IF xs = <<>> THEN <<>>
    ELSE InsertTuple(SortedTuples(Tail(xs)), xs[1])

----------------------------------------------------------------------------
(* PkgWriter.  A method X that changes the writer and returns a value is   *)
(* two operators: X(w, ...) is the writer after the call and X_result(...) *)
(* is the value the call returns.  A line is kept as _write_line received  *)
(* it, [indent, line, args], and formatted by LineText when write() joins  *)
(* the text.  A writer whose ok is FALSE has raised: what it holds no      *)
(* longer matters, and a loop stops at it.  A reference to a               *)
(* FileDescriptorProto of the request (self.fd, the values of the dicts of *)
(* Descriptors) is its position in request.proto_file.                     *)

\* the FileDescriptorProto a reference points to
FileOf(ref) == request.proto_file[ref]

PkgWriter(fd) ==
    [fd |-> fd, lines |-> <<>>, indent |-> "", imports |-> <<>>,
     locals |-> {}, builtin_vars |-> {}, py2_builtin_vars |-> {},
     ok |-> TRUE]

Raise(w) == [w EXCEPT !.ok = FALSE]

\* mangled_name, which _import returns
_import_result(path, name) ==
    replace(replace(path, "/", "."), ".", "___") \o "___" \o name

\* _import that files the name under the path as it was given
_import_verbatim(w, path, name) ==
    [w EXCEPT !.imports =
        DictSetAdd(@, path, <<name, _import_result(path, name)>>)]

_import(w, path, name) ==
    [w EXCEPT !.imports =
        DictSetAdd(@, replace(path, "/", "."),
            <<name, _import_result(path, name)>>)]

\* "." + message_fd.package + ".", or "." for a file without package
package_prefix(message_fd) ==
    IF message_fd.package # "" THEN "." \o message_fd.package \o "."
    ELSE "."

\* _import_message raises: the KeyError of message_to_fd[name], or one of
\* its asserts
_import_message_raises(name) ==
    \/ name \notin DOMAIN descriptors.message_to_fd
    \/ LET message_fd == FileOf(descriptors.message_to_fd[name])
       IN  \/ ~endswith(message_fd.name, ".proto")
           \/ ~startswith(name, package_prefix(message_fd))

\* name with the package stripped off, split at "."
stripped_name(name) ==
    From(name,
        Len(package_prefix(FileOf(descriptors.message_to_fd[name]))))

\* the module _import_message imports from, with the hyphens kept
import_path_hyphens(message_fd) == DropLast(message_fd.name, 6) \o "_pb2"

\* the first argument of _import_message's call of _import
import_path(message_fd) ==
    replace(DropLast(message_fd.name, 6), "-", "_") \o "_pb2"

_import_message(w, name) ==
    IF _import_message_raises(name) THEN Raise(w)
    ELSE IF FileOf(descriptors.message_to_fd[name]).name = FileOf(w.fd).name
    THEN w
    ELSE _import(w, import_path(FileOf(descriptors.message_to_fd[name])),
             split(stripped_name(name), ".")[1])

\* the handle _import_message returns to the writer of the file fd
_import_message_result(fd, name) ==
    IF _import_message_raises(name) THEN ""
    ELSE IF FileOf(descriptors.message_to_fd[name]).name = FileOf(fd).name
    THEN _mangle_message(stripped_name(name))
    ELSE LET parts == split(stripped_name(name), ".")
             import_name ==
                 _import_result(
                     import_path(FileOf(descriptors.message_to_fd[name])),
                     parts[1])
         IN  IF Len(parts) = 1 THEN import_name
             ELSE import_name \o "." \o join(".", Tail(parts))

\* _builtin returns _mangle_builtin(name)
_builtin(w, name) ==
    IF name \in PY2_ONLY_BUILTINS
    THEN [w EXCEPT !.py2_builtin_vars = @ \cup {name}]
    ELSE [w EXCEPT !.builtin_vars = @ \cup {name}]

\* _indent: entering the with block, and leaving it
IndentEnter(w) == [w EXCEPT !.indent = @ \o "    "]

\* IndentExit that leaves the indentation as it is
IndentExit_kept(w) == w

IndentExit(w) == [w EXCEPT !.indent = DropLast(@, 4)]

_write_line(w, line, args) ==
    [w EXCEPT !.lines =
        Append(@, IF line = ""
                  THEN [indent |-> "", line |-> line, args |-> <<>>]
                  ELSE [indent |-> w.indent, line |-> line, args |-> args])]

LineText(ln) == ln.indent \o format(ln.line, ln.args)

\* python_type's four calls of _builtin
python_type_builtins(w) ==
    _builtin(_builtin(_builtin(_builtin(w, "float"), "int"), "bool"), "bytes")

\* python_type that looks no name up
python_type_unresolved(w, field) == python_type_builtins(w)

python_type(w, field) ==
    IF field.type \notin MappedTypes THEN Raise(python_type_builtins(w))
    ELSE IF field.type = "TYPE_STRING"
    THEN _import(python_type_builtins(w), "typing", "Text")
    ELSE IF field.type = "TYPE_ENUM"
    THEN _import_message(python_type_builtins(w), field.type_name \o "Value")
    ELSE IF field.type \in {"TYPE_MESSAGE", "TYPE_GROUP"}
    THEN _import_message(python_type_builtins(w), field.type_name)
    ELSE python_type_builtins(w)

\* mapping[field.type](), for the writer of the file fd
python_type_result(fd, field) ==
    IF field.type \in FloatTypes THEN _mangle_builtin("float")
    ELSE IF field.type \in IntTypes THEN _mangle_builtin("int")
    ELSE IF field.type = "TYPE_BOOL" THEN _mangle_builtin("bool")
    ELSE IF field.type = "TYPE_STRING" THEN _import_result("typing", "Text")
    ELSE IF field.type = "TYPE_BYTES" THEN _mangle_builtin("bytes")
    ELSE IF field.type = "TYPE_ENUM"
    THEN _import_message_result(fd, field.type_name \o "Value")
    ELSE IF field.type \in {"TYPE_MESSAGE", "TYPE_GROUP"}
    THEN _import_message_result(fd, field.type_name)
    ELSE ""

RECURSIVE write_enum_values_from(_, _, _)
write_enum_values_from(w, values, enum_full_name) ==
    IF ~w.ok \/ values = <<>> THEN w
    ELSE IF values[1].name \in PYTHON_RESERVED
    THEN write_enum_values_from(w, Tail(values), enum_full_name)
    ELSE write_enum_values_from(
             _write_line(_import(w, "typing", "cast"), "{} = {}({}, {})",
                 <<values[1].name, _import_result("typing", "cast"),
                   enum_full_name, ToString(values[1].number)>>),
             Tail(values), enum_full_name)

write_enum_values(w, enum, enum_full_name) ==
    write_enum_values_from(w, enum.value, enum_full_name)

write_module_attributes(w) ==
    LET w1 == _import(w, "google.protobuf.descriptor", "FileDescriptor")
        w2 == _write_line(w1, "DESCRIPTOR: {} = ...",
                  <<_import_result("google.protobuf.descriptor",
                        "FileDescriptor")>>)
    IN  _write_line(w2, "", <<>>)

\* The body of write_enums' loop, for one enum whose name is not reserved
write_enum(w, enum, prefix) ==
    LET enum_value_type == enum.name \o "Value"
        enum_value_full_type == prefix \o enum.name \o "Value"
        w1 == _builtin(_import(w, "typing", "NewType"), "int")
        w2 == _write_line(w1, "{} = {}('{}', {})",
                  <<enum_value_type, _import_result("typing", "NewType"),
                    enum_value_type, _mangle_builtin("int")>>)
        w3 == _write_line(w2, "{} = {}",
                  <<_mangle_message(enum_value_type), enum_value_type>>)
        w4 == _write_line(w3, "{}: {}", <<enum.name, "_" \o enum.name>>)
        w5 == _import(w4, "google.protobuf.internal.enum_type_wrapper",
                  "_EnumTypeWrapper")
        w6 == _write_line(w5, "class {}({}[{}]):",
                  <<"_" \o enum.name,
                    _import_result(
                        "google.protobuf.internal.enum_type_wrapper",
                        "_EnumTypeWrapper"),
                    enum_value_full_type>>)
        w7 == _import(IndentEnter(w6), "google.protobuf.descriptor",
                  "EnumDescriptor")
        w8 == _write_line(w7, "DESCRIPTOR: {} = ...",
                  <<_import_result("google.protobuf.descriptor",
                        "EnumDescriptor")>>)
        w9 == IndentExit(write_enum_values(w8, enum, enum_value_full_type))
        w10 == write_enum_values(w9, enum, enum_value_full_type)
        w11 == _write_line(w10, "{} = {}",
                   <<_mangle_message(enum.name), enum.name>>)
    IN  _write_line(w11, "", <<>>)

RECURSIVE write_enums(_, _, _)
write_enums(w, enums, prefix) ==
    IF ~w.ok \/ enums = <<>> THEN w
    ELSE IF enums[1].name \in PYTHON_RESERVED
    THEN write_enums(w, Tail(enums), prefix)
    ELSE write_enums(write_enum(w, enums[1], prefix), Tail(enums), prefix)

----------------------------------------------------------------------------
(* write_messages: what it writes for one message after its nested enums   *)
(* and messages                                                            *)

LABEL_REPEATED == "LABEL_REPEATED"

\* f.HasField("oneof_index"): oneof_index is <<>> when unset, <<idx>> when set
HasOneofIndex(f) == f.oneof_index # <<>>

\* [x for x in xs if x.name not in PYTHON_RESERVED]
RECURSIVE NotReserved(_)
NotReserved(xs) ==
    IF xs = <<>> THEN <<>>
    ELSE (IF xs[1].name \in PYTHON_RESERVED THEN <<>> ELSE <<xs[1]>>)
             \o NotReserved(Tail(xs))

\* self.python_type(msg.field[0]), self.python_type(msg.field[1]) for the
\* entry message of a map: the writer after the two calls
map_types(w, msg) ==
    IF Len(msg.field) = 0 THEN Raise(w)
    ELSE IF Len(msg.field) = 1 THEN Raise(python_type(w, msg.field[1]))
    ELSE python_type(python_type(w, msg.field[1]), msg.field[2])

\* the text of the key type and of the value type
map_key_type(fd, msg) ==
    IF Len(msg.field) < 1 THEN "" ELSE python_type_result(fd, msg.field[1])

map_value_type(fd, msg) ==
    IF Len(msg.field) < 2 THEN "" ELSE python_type_result(fd, msg.field[2])

\* "Scalar fields": one pass of the loop
write_scalar_field(w, field) ==
    IF field.label = LABEL_REPEATED
    THEN _write_line(
             python_type(
                 _import(w, "google.protobuf.internal.containers",
                     "RepeatedScalarFieldContainer"),
                 field),
             "{}: {}[{}] = ...",
             <<field.name,
               _import_result("google.protobuf.internal.containers",
                   "RepeatedScalarFieldContainer"),
               python_type_result(w.fd, field)>>)
    ELSE _write_line(python_type(w, field), "{}: {} = ...",
             <<field.name, python_type_result(w.fd, field)>>)

RECURSIVE write_scalar_fields(_, _)
write_scalar_fields(w, fields) ==
    IF ~w.ok \/ fields = <<>> THEN w
    ELSE IF is_scalar(fields[1])
    THEN write_scalar_fields(write_scalar_field(w, fields[1]), Tail(fields))
    ELSE write_scalar_fields(w, Tail(fields))

\* the accessor of a repeated field whose type is a map entry message
write_map_getter(w, field, msg) ==
    _write_line(map_types(_import(w, "typing", "MutableMapping"), msg),
        "def {}(self) -> {}[{}, {}]: ...",
        <<field.name, _import_result("typing", "MutableMapping"),
          map_key_type(w.fd, msg), map_value_type(w.fd, msg)>>)

\* the accessor of any other repeated field
write_repeated_getter(w, field) ==
    _write_line(
        python_type(
            _import(w, "google.protobuf.internal.containers",
                "RepeatedCompositeFieldContainer"),
            field),
        "def {}(self) -> {}[{}]: ...",
        <<field.name,
          _import_result("google.protobuf.internal.containers",
              "RepeatedCompositeFieldContainer"),
          python_type_result(w.fd, field)>>)

\* the accessor of a singular field
write_singular_getter(w, field) ==
    _write_line(python_type(w, field), "def {}(self) -> {}: ...",
        <<field.name, python_type_result(w.fd, field)>>)

\* "Getters for non-scalar fields": one pass of the loop; the lookup
\* self.descriptors.messages[field.type_name] raises KeyError
write_getter(w, field) ==
    _write_line(
        IF field.label = LABEL_REPEATED
        THEN IF field.type_name \notin DOMAIN descriptors.messages
             THEN Raise(_write_line(w, "@property", <<>>))
             ELSE IF descriptors.messages[field.type_name].options.map_entry
             THEN write_map_getter(_write_line(w, "@property", <<>>), field,
                      descriptors.messages[field.type_name])
             ELSE write_repeated_getter(_write_line(w, "@property", <<>>),
                      field)
        ELSE write_singular_getter(_write_line(w, "@property", <<>>), field),
        "", <<>>)

RECURSIVE write_getters(_, _)
write_getters(w, fields) ==
    IF ~w.ok \/ fields = <<>> THEN w
    ELSE IF ~is_scalar(fields[1])
    THEN write_getters(write_getter(w, fields[1]), Tail(fields))
    ELSE write_getters(w, Tail(fields))

\* whether the constructor takes the repeated field as a Mapping
\* IsMapField for a constructor that knows no maps
IsMapField_never(field) == FALSE

IsMapField(field) ==
    /\ field.type_name \in DOMAIN descriptors.messages
    /\ descriptors.messages[field.type_name].options.map_entry

\* "Constructor": one pass of the loop over the fields
write_init_param(w, field) ==
    IF field.label = LABEL_REPEATED
    THEN IF IsMapField(field)
         THEN _write_line(
                  map_types(
                      _import(_import(w, "typing", "Optional"),
                          "typing", "Mapping"),
                      descriptors.messages[field.type_name]),
                  "{} : {}[{}[{}, {}]] = None,",
                  <<field.name, _import_result("typing", "Optional"),
                    _import_result("typing", "Mapping"),
                    map_key_type(w.fd,
                        descriptors.messages[field.type_name]),
                    map_value_type(w.fd,
                        descriptors.messages[field.type_name])>>)
         ELSE _write_line(
                  python_type(
                      _import(_import(w, "typing", "Optional"),
                          "typing", "Iterable"),
                      field),
                  "{} : {}[{}[{}]] = None,",
                  <<field.name, _import_result("typing", "Optional"),
                    _import_result("typing", "Iterable"),
                    python_type_result(w.fd, field)>>)
    ELSE _write_line(python_type(_import(w, "typing", "Optional"), field),
             "{} : {}[{}] = None,",
             <<field.name, _import_result("typing", "Optional"),
               python_type_result(w.fd, field)>>)

RECURSIVE write_init_params(_, _)
write_init_params(w, fields) ==
    IF ~w.ok \/ fields = <<>> THEN w
    ELSE write_init_params(write_init_param(w, fields[1]), Tail(fields))

write_init(w, fields) ==
    LET w1 == IndentEnter(_write_line(w, "def __init__(self,", <<>>))
        w2 == write_init_params(
                  IF Len(fields) > 0 THEN _write_line(w1, "*,", <<>>)
                  ELSE w1,
                  fields)
    IN  IndentExit(_write_line(w2, ") -> None: ...", <<>>))

----------------------------------------------------------------------------
(* write_stringly_typed_fields *)

\* whether HasField takes the field's name
\* InHasField without the rule for proto3
InHasField_proto2(w, f) == HasOneofIndex(f) \/ f.label # LABEL_REPEATED

InHasField(w, f) ==
    \/ HasOneofIndex(f)
    \/ /\ f.label # LABEL_REPEATED
       /\ (FileOf(w.fd).syntax # "proto3" \/ f.type = "TYPE_MESSAGE")

RECURSIVE hf_field_names(_, _)
hf_field_names(w, fields) ==
    IF fields = <<>> THEN <<>>
    ELSE (IF InHasField(w, fields[1]) THEN <<fields[1].name>> ELSE <<>>)
             \o hf_field_names(w, Tail(fields))

\* [f.name for f in fields]
RECURSIVE Names(_)
Names(fields) ==
    IF fields = <<>> THEN <<>> ELSE <<fields[1].name>> \o Names(Tail(fields))

InOneof(f, idx) == HasOneofIndex(f) /\ f.oneof_index[1] = idx

RECURSIVE oneof_members(_, _)
oneof_members(fields, idx) ==
    IF fields = <<>> THEN <<>>
    ELSE (IF InOneof(fields[1], idx) THEN <<fields[1].name>> ELSE <<>>)
             \o oneof_members(Tail(fields), idx)

\* the dict wo_fields, built for the oneofs from index idx on (0-based)
RECURSIVE wo_fields_from(_, _, _)
wo_fields_from(desc, idx, d) ==
    IF idx >= Len(desc.oneof_decl) THEN d
    ELSE wo_fields_from(desc, idx + 1,
             ODictSet(d, desc.oneof_decl[idx + 1].name,
                 oneof_members(desc.field, idx)))

\* d.keys() of a dict kept as its items
RECURSIVE Keys(_)
Keys(d) == IF d = <<>> THEN <<>> ELSE <<d[1][1]>> \o Keys(Tail(d))

\* ['u"{}",b"{}"'.format(name, name) for name in names]
RECURSIVE BothLiterals(_)
BothLiterals(names) ==
    IF names = <<>> THEN <<>>
    ELSE <<format("u\"{}\",b\"{}\"", <<names[1], names[1]>>)>>
             \o BothLiterals(Tail(names))

\* ['"{}"'.format(m) for m in members]
RECURSIVE Quoted(_)
Quoted(members) ==
    IF members = <<>> THEN <<>>
    ELSE <<format("\"{}\"", <<members[1]>>)>> \o Quoted(Tail(members))

\* hf_fields and cf_fields, once the keys of wo_fields are appended
hf_fields(w, desc) ==
    hf_field_names(w, desc.field) \o Keys(wo_fields_from(desc, 0, <<>>))

cf_fields(desc) == Names(desc.field) \o Keys(wo_fields_from(desc, 0, <<>>))

\* the HasField line, if hf_fields is not empty
write_has_field(w, desc) ==
    IF hf_fields(w, desc) = <<>> THEN w
    ELSE _write_line(
             _builtin(_import(w, "typing_extensions", "Literal"), "bool"),
             "def HasField(self, field_name: {}[{}]) -> {}: ...",
             <<_import_result("typing_extensions", "Literal"),
               join(",", SortedStrs(BothLiterals(hf_fields(w, desc)))),
               _mangle_builtin("bool")>>)

\* the ClearField line, if cf_fields is not empty
write_clear_field(w, desc) ==
    IF cf_fields(desc) = <<>> THEN w
    ELSE _write_line(_import(w, "typing_extensions", "Literal"),
             "def ClearField(self, field_name: {}[{}]) -> None: ...",
             <<_import_result("typing_extensions", "Literal"),
               join(",", SortedStrs(BothLiterals(cf_fields(desc))))>>)

\* the @overload line, if there are several oneofs
write_overload(w, n) ==
    IF n > 1
    THEN _write_line(_import(w, "typing", "overload"), "@{}",
             <<_import_result("typing", "overload")>>)
    ELSE w

\* the loop over sorted(wo_fields.items()); n is len(wo_fields)
RECURSIVE write_which_oneofs(_, _, _)
write_which_oneofs(w, items, n) ==
    IF ~w.ok \/ items = <<>> THEN w
    ELSE write_which_oneofs(
             _write_line(
                 _import(
                     _import(write_overload(w, n),
                         "typing_extensions", "Literal"),
                     "typing_extensions", "Literal"),
                 "def WhichOneof(self, oneof_group: {}[{}]) -> {}[{}]: ...",
                 <<_import_result("typing_extensions", "Literal"),
                   format("u\"{}\",b\"{}\"", <<items[1][1], items[1][1]>>),
                   _import_result("typing_extensions", "Literal"),
                   join(",", Quoted(items[1][2]))>>),
             Tail(items), n)

write_stringly_typed_fields(w, desc) ==
    IF /\ hf_fields(w, desc) = <<>>
       /\ cf_fields(desc) = <<>>
       /\ wo_fields_from(desc, 0, <<>>) = <<>>
    THEN w
    ELSE write_which_oneofs(
             write_clear_field(write_has_field(w, desc), desc),
             SortedTuples(wo_fields_from(desc, 0, <<>>)),
             Len(wo_fields_from(desc, 0, <<>>)))

\* write_messages, for one message: from the fields to the end of the
\* with block (the nested enums and messages are written by then)
write_message_fields(w, desc) ==
    LET w1 == write_scalar_fields(w, NotReserved(desc.field))
        w2 == write_getters(_write_line(w1, "", <<>>),
                  NotReserved(desc.field))
    IN  write_stringly_typed_fields(
            write_init(w2, NotReserved(desc.field)), desc)

----------------------------------------------------------------------------
(* Extensions and services *)

RECURSIVE write_extension_lines(_, _, _)
write_extension_lines(w, extensions, field_descriptor_class) ==
    IF ~w.ok \/ extensions = <<>> THEN w
    ELSE write_extension_lines(
             _write_line(
                 _write_line(w, "{}: {} = ...",
                     <<extensions[1].name, field_descriptor_class>>),
                 "", <<>>),
             Tail(extensions), field_descriptor_class)

write_extensions(w, extensions) ==
    IF extensions = <<>> THEN w
    ELSE write_extension_lines(
             _import(w, "google.protobuf.descriptor", "FieldDescriptor"),
             extensions,
             _import_result("google.protobuf.descriptor", "FieldDescriptor"))

\* the @abstractmethod line of an abstract method
write_abstract(w, is_abstract) ==
    IF is_abstract
    THEN _write_line(_import(w, "abc", "abstractmethod"), "@{}",
             <<_import_result("abc", "abstractmethod")>>)
    ELSE w

\* write_methods: one pass of the loop
write_method(w, method, is_abstract) ==
    LET w1 == _write_line(write_abstract(w, is_abstract), "def {}(self,",
                  <<method.name>>)
        w2 == _import(IndentEnter(w1), "google.protobuf.service",
                  "RpcController")
        w3 == _write_line(w2, "rpc_controller: {},",
                  <<_import_result("google.protobuf.service",
                        "RpcController")>>)
        w4 == _write_line(_import_message(w3, method.input_type),
                  "request: {},",
                  <<_import_message_result(w.fd, method.input_type)>>)
        w5 == _import_message(
                  _import(_import(w4, "typing", "Optional"),
                      "typing", "Callable"),
                  method.output_type)
        w6 == _write_line(w5, "done: {}[{}[[{}], None]],",
                  <<_import_result("typing", "Optional"),
                    _import_result("typing", "Callable"),
                    _import_message_result(w.fd, method.output_type)>>)
        w7 == _import_message(
                  _import(IndentExit(w6), "concurrent.futures", "Future"),
                  method.output_type)
    IN  _write_line(w7, ") -> {}[{}]: ...",
            <<_import_result("concurrent.futures", "Future"),
              _import_message_result(w.fd, method.output_type)>>)

RECURSIVE write_method_list(_, _, _)
write_method_list(w, methods, is_abstract) ==
    IF ~w.ok \/ methods = <<>> THEN w
    ELSE write_method_list(write_method(w, methods[1], is_abstract),
             Tail(methods), is_abstract)

write_methods(w, service, is_abstract) ==
    write_method_list(
        IF NotReserved(service.method) = <<>>
        THEN _write_line(w, "pass", <<>>)
        ELSE w,
        NotReserved(service.method), is_abstract)

\* write_services: one pass of the loop
write_service(w, service) ==
    LET w1 == _import(_import(w, "google.protobuf.service", "Service"),
                  "abc", "ABCMeta")
        w2 == _write_line(w1, "class {}({}, metaclass={}):",
                  <<service.name,
                    _import_result("google.protobuf.service", "Service"),
                    _import_result("abc", "ABCMeta")>>)
        w3 == IndentExit(write_methods(IndentEnter(w2), service, TRUE))
        w4 == _write_line(w3, "class {}({}):",
                  <<service.name \o "_Stub", service.name>>)
        w5 == _import(IndentEnter(w4), "google.protobuf.service",
                  "RpcChannel")
        w6 == _write_line(w5,
                  "def __init__(self, rpc_channel: {}) -> None: ...",
                  <<_import_result("google.protobuf.service",
                        "RpcChannel")>>)
    IN  IndentExit(write_methods(w6, service, FALSE))

RECURSIVE write_service_list(_, _)
write_service_list(w, services) ==
    IF ~w.ok \/ services = <<>> THEN w
    ELSE write_service_list(write_service(w, services[1]), Tail(services))

write_services(w, services) == write_service_list(w, NotReserved(services))

_output_type(w, method) ==
    IF method.server_streaming
    THEN _import(_import_message(w, method.output_type),
             "typing", "Generator")
    ELSE _import_message(w, method.output_type)

_output_type_result(fd, method) ==
    IF method.server_streaming
    THEN format("{}[{}, None, None]",
             <<_import_result("typing", "Generator"),
               _import_message_result(fd, method.output_type)>>)
    ELSE _import_message_result(fd, method.output_type)

\* write_grpc_methods: one pass of the loop
write_grpc_method(w, method) ==
    LET w1 == _write_line(_import(w, "abc", "abstractmethod"), "@{}",
                  <<_import_result("abc", "abstractmethod")>>)
        w2 == IndentEnter(_write_line(w1, "def {}(self,", <<method.name>>))
        w3 == _write_line(_import_message(w2, method.input_type),
                  "request: {},",
                  <<_import_message_result(w.fd, method.input_type)>>)
        w4 == _write_line(_import(w3, "grpc", "ServicerContext"),
                  "context: {},",
                  <<_import_result("grpc", "ServicerContext")>>)
        w5 == _write_line(_output_type(IndentExit(w4), method),
                  ") -> {}: ...", <<_output_type_result(w.fd, method)>>)
    IN  _write_line(w5, "", <<>>)

RECURSIVE write_grpc_method_list(_, _)
write_grpc_method_list(w, methods) ==
    IF ~w.ok \/ methods = <<>> THEN w
    ELSE write_grpc_method_list(write_grpc_method(w, methods[1]),
             Tail(methods))

write_grpc_methods(w, service) ==
    write_grpc_method_list(
        IF NotReserved(service.method) = <<>>
        THEN _write_line(_write_line(w, "pass", <<>>), "", <<>>)
        ELSE w,
        NotReserved(service.method))

\* write_grpc_stub_methods: one pass of the loop
write_grpc_stub_method(w, method) ==
    LET w1 == IndentEnter(_write_line(w, "def {}(self,", <<method.name>>))
        w2 == _write_line(_import_message(w1, method.input_type),
                  "request: {},",
                  <<_import_message_result(w.fd, method.input_type)>>)
        w3 == _write_line(_output_type(IndentExit(w2), method),
                  ") -> {}: ...", <<_output_type_result(w.fd, method)>>)
    IN  _write_line(w3, "", <<>>)

RECURSIVE write_grpc_stub_method_list(_, _)
write_grpc_stub_method_list(w, methods) ==
    IF ~w.ok \/ methods = <<>> THEN w
    ELSE write_grpc_stub_method_list(write_grpc_stub_method(w, methods[1]),
             Tail(methods))

write_grpc_stub_methods(w, service) ==
    write_grpc_stub_method_list(
        IF NotReserved(service.method) = <<>>
        THEN _write_line(_write_line(w, "pass", <<>>), "", <<>>)
        ELSE w,
        NotReserved(service.method))

\* write_grpc_services: one pass of the loop
write_grpc_service(w, service) ==
    LET w1 == _write_line(_import(w, "abc", "ABCMeta"),
                  "class {}Servicer(metaclass={}):",
                  <<service.name, _import_result("abc", "ABCMeta")>>)
        w2 == IndentExit(write_grpc_methods(IndentEnter(w1), service))
        w3 == _write_line(_write_line(w2, "", <<>>), "class {}Stub:",
                  <<service.name>>)
        w4 == _write_line(_import(IndentEnter(w3), "grpc", "Channel"),
                  "def __init__(self, channel: {}) -> None: ...",
                  <<_import_result("grpc", "Channel")>>)
        w5 == IndentExit(write_grpc_stub_methods(w4, service))
    IN  _write_line(w5, "", <<>>)

RECURSIVE write_grpc_service_list(_, _)
write_grpc_service_list(w, services) ==
    IF ~w.ok \/ services = <<>> THEN w
    ELSE write_grpc_service_list(write_grpc_service(w, services[1]),
             Tail(services))

\* the module the gateway stub re-exports: fd.name.rsplit('/', 1)[1] raises
\* IndexError when the name holds no '/'
write_grpc_services(w, services) ==
    IF Len(rsplit1(FileOf(w.fd).name, "/")) < 2 THEN Raise(w)
    ELSE write_grpc_service_list(
             _write_line(w, "from .{} import *",
                 <<replace(DropLast(rsplit1(FileOf(w.fd).name, "/")[2], 6),
                       "-", "_") \o "_pb2">>),
             NotReserved(services))

----------------------------------------------------------------------------
(* PkgWriter.write *)

\* the items of a dict whose insertion order is not kept: write() sorts them
DictItems(d) ==
    LET keys == SetToSeq(DOMAIN d)
    IN  [i \in 1..Len(keys) |-> <<keys[i], d[keys[i]]>>]

RECURSIVE import_item_lines(_)
import_item_lines(items) ==
    IF items = <<>> THEN <<>>
    ELSE <<format("    {} as {},", <<items[1][1], items[1][2]>>)>>
             \o import_item_lines(Tail(items))

\* import_block with the items taken as the set iterates, unsorted
import_block_unsorted(pkg, items) ==
    <<format("from {} import (", <<pkg>>)>>
        \o import_item_lines(IterSet(items, hashseed))
        \o <<")\n">>

\* the lines of one "from pkg import (...)" block
import_block(pkg, items) ==
    <<format("from {} import (", <<pkg>>)>>
        \o import_item_lines(SortedTuples(IterSet(items, hashseed)))
        \o <<")\n">>

RECURSIVE import_blocks(_)
import_blocks(pkgs) ==
    IF pkgs = <<>> THEN <<>>
    ELSE import_block(pkgs[1][1], pkgs[1][2]) \o import_blocks(Tail(pkgs))

import_lines(w) ==
    <<"import sys">> \o import_blocks(SortedTuples(DictItems(w.imports)))
        \o <<"">>

RECURSIVE alias_assignments(_, _)
alias_assignments(line, names) ==
    IF names = <<>> THEN <<>>
    ELSE <<format(line, <<_mangle_builtin(names[1]), names[1]>>)>>
             \o alias_assignments(line, Tail(names))

alias_lines(w) ==
    LET builtins == alias_assignments("{} = {}",
                        SortedStrs(IterSet(w.builtin_vars, hashseed)))
        py2 == IF w.py2_builtin_vars # {}
               THEN <<"if sys.version_info < (3,):">>
                        \o alias_assignments("    {} = {}",
                               SortedStrs(IterSet(w.py2_builtin_vars,
                                                  hashseed)))
               ELSE <<>>
        aliases == builtins \o py2
    IN  IF aliases # <<>> THEN aliases \o <<"\n">> ELSE aliases

LineTexts(lines) == [i \in 1..Len(lines) |-> LineText(lines[i])]

write(w) == join("\n", import_lines(w) \o alias_lines(w) \o LineTexts(w.lines))

----------------------------------------------------------------------------
(* Descriptors *)

\* d[key] = value on a dict that is only looked up
DictSet(d, key, value) == (key :> value) @@ d

\* _add_enums; ix is [messages, message_to_fd]
RECURSIVE _add_enums(_, _, _, _)
_add_enums(ix, enums, prefix, fd) ==
    IF enums = <<>> THEN ix
    ELSE LET m1 == DictSet(ix.message_to_fd, prefix \o enums[1].name, fd)
             m2 == DictSet(m1, prefix \o enums[1].name \o "Value", fd)
         IN  _add_enums([ix EXCEPT !.message_to_fd = m2], Tail(enums),
                 prefix, fd)

RECURSIVE _add_messages(_, _, _, _)
_add_messages(ix, messages, prefix, fd) ==
    IF messages = <<>> THEN ix
    ELSE LET message == messages[1]
             ix1 == [messages |->
                         DictSet(ix.messages, prefix \o message.name, message),
                     message_to_fd |->
                         DictSet(ix.message_to_fd, prefix \o message.name, fd)]
             sub_prefix == prefix \o message.name \o "."
             ix2 == _add_messages(ix1, message.nested_type, sub_prefix, fd)
             ix3 == _add_enums(ix2, message.enum_type, sub_prefix, fd)
         IN  _add_messages(ix3, Tail(messages), prefix, fd)

\* the loop over request.proto_file that fills the index, from the i-th file
RECURSIVE index_files(_, _, _)
index_files(ix, proto_file, i) ==
    IF i > Len(proto_file) THEN ix
    ELSE LET fd == proto_file[i]
             start_prefix == IF fd.package # ""
                             THEN "." \o fd.package \o "."
                             ELSE "."
             ix1 == _add_messages(ix, fd.message_type, start_prefix, i)
             ix2 == _add_enums(ix1, fd.enum_type, start_prefix, i)
         IN  index_files(ix2, proto_file, i + 1)

\* {f.name: f for f in request.proto_file}, from the i-th file
RECURSIVE files_dict(_, _, _)
files_dict(d, proto_file, i) ==
    IF i > Len(proto_file) THEN d
    ELSE files_dict(ODictSet(d, proto_file[i].name, i), proto_file, i + 1)

\* {n: files[n] for n in request.file_to_generate}; files[n] raises KeyError
RECURSIVE to_generate_dict(_, _, _)
to_generate_dict(d, files, names) ==
    IF names = <<>> THEN d
    ELSE to_generate_dict(ODictSet(d, names[1], ODictGet(files, names[1])),
             files, Tail(names))

Descriptors(req) ==
    LET files == files_dict(<<>>, req.proto_file, 1)
        known == \A i \in 1..Len(req.file_to_generate) :
                     ODictHas(files, req.file_to_generate[i])
        ix == index_files([messages |-> <<>>, message_to_fd |-> <<>>],
                  req.proto_file, 1)
    IN  IF ~known
        THEN [ok |-> FALSE, files |-> files, to_generate |-> <<>>,
              messages |-> <<>>, message_to_fd |-> <<>>]
        ELSE [ok |-> TRUE, files |-> files,
              to_generate |-> to_generate_dict(<<>>, files,
                                  req.file_to_generate),
              messages |-> ix.messages,
              message_to_fd |-> ix.message_to_fd]

----------------------------------------------------------------------------
(* Bounds, and the requests the process is run on *)

\* hash seeds are 0..MaxHashSeed
MaxHashSeed == 1

\* the most fields the generated message of a request declares
MaxFields == 2

\* the most calls made on one writer from outside
MaxCalls == 3

Field(name, type, label, type_name, oneof_index) ==
    [name |-> name, type |-> type, label |-> label, type_name |-> type_name,
     oneof_index |-> oneof_index]

Message(name, field, nested_type, enum_type, oneof_decl, map_entry) ==
    [name |-> name, field |-> field, nested_type |-> nested_type,
     enum_type |-> enum_type, oneof_decl |-> oneof_decl,
     options |-> [map_entry |-> map_entry]]

EnumValue(name, number) == [name |-> name, number |-> number]

Enum(name, value) == [name |-> name, value |-> value]

Method(name, input_type, output_type, server_streaming) ==
    [name |-> name, input_type |-> input_type, output_type |-> output_type,
     server_streaming |-> server_streaming]

Service(name, method) == [name |-> name, method |-> method]

File(name, package, syntax, message_type, enum_type, service, extension, py_generic_services) ==
    [name |-> name, package |-> package, syntax |-> syntax,
     message_type |-> message_type, enum_type |-> enum_type,
     service |-> service, extension |-> extension,
     options |-> [py_generic_services |-> py_generic_services]]

Request(proto_file, file_to_generate, parameter) ==
    [proto_file |-> proto_file, file_to_generate |-> file_to_generate,
     parameter |-> parameter]

OPTIONAL == "LABEL_OPTIONAL"

\* dep/other.proto: package dep; message Other { message Inner {} };
\* enum Kind { K0 = 0; }
DepFile ==
    File("dep/other.proto", "dep", "proto2",
         <<Message("Other", <<>>,
                   <<Message("Inner", <<>>, <<>>, <<>>, <<>>, FALSE)>>,
                   <<>>, <<>>, FALSE)>>,
         <<Enum("Kind", <<EnumValue("K0", 0)>>)>>,
         <<>>, <<>>, FALSE)

\* The fields a generated message draws from, in the order it declares
\* them; group names the oneof a field is a member of ("" for none).
FieldPool ==
    <<[name |-> "id", type |-> "TYPE_INT32", label |-> OPTIONAL,
       type_name |-> "", group |-> ""],
      [name |-> "tags", type |-> "TYPE_STRING", label |-> LABEL_REPEATED,
       type_name |-> "", group |-> ""],
      [name |-> "sub", type |-> "TYPE_MESSAGE", label |-> OPTIONAL,
       type_name |-> ".pkg.Outer", group |-> ""],
      [name |-> "other", type |-> "TYPE_MESSAGE", label |-> OPTIONAL,
       type_name |-> ".dep.Other.Inner", group |-> ""],
      [name |-> "attrs", type |-> "TYPE_MESSAGE", label |-> LABEL_REPEATED,
       type_name |-> ".pkg.Outer.AttrsEntry", group |-> ""],
      [name |-> "others", type |-> "TYPE_MESSAGE", label |-> LABEL_REPEATED,
       type_name |-> ".dep.Other", group |-> ""],
      [name |-> "zed", type |-> "TYPE_INT32", label |-> OPTIONAL,
       type_name |-> "", group |-> "g"],
      [name |-> "alt", type |-> "TYPE_STRING", label |-> OPTIONAL,
       type_name |-> "", group |-> "g"],
      [name |-> "body", type |-> "TYPE_MESSAGE", label |-> OPTIONAL,
       type_name |-> ".dep.Other", group |-> "choice"],
      [name |-> "from", type |-> "TYPE_BOOL", label |-> OPTIONAL,
       type_name |-> "", group |-> "choice"],
      [name |-> "class", type |-> "TYPE_INT32", label |-> OPTIONAL,
       type_name |-> "", group |-> ""],
      [name |-> "kind", type |-> "TYPE_ENUM", label |-> OPTIONAL,
       type_name |-> ".dep.Kind", group |-> ""],
      [name |-> "missing", type |-> "TYPE_MESSAGE", label |-> OPTIONAL,
       type_name |-> ".pkg.Missing", group |-> ""]>>

\* the fields of the pool at the positions in S, in the pool's order
Picked(S) ==
    [i \in 1..Cardinality(S) |->
        FieldPool[CHOOSE k \in S : Cardinality({j \in S : j < k}) = i - 1]]

\* the choices of 1..n fields of the pool
FieldChoices(n) ==
    {Picked(S) : S \in {S \in SUBSET (1..Len(FieldPool)) :
                            Cardinality(S) \in 1..n}}

\* the oneofs the chosen fields are members of, in order of first use
RECURSIVE GroupsOf(_, _)
GroupsOf(chosen, seen) ==
    IF chosen = <<>> THEN seen
    ELSE GroupsOf(Tail(chosen),
             IF chosen[1].group = ""
                \/ \E i \in 1..Len(seen) : seen[i] = chosen[1].group
             THEN seen
             ELSE Append(seen, chosen[1].group))

\* the FieldDescriptorProtos of the chosen fields
FieldsOf(chosen) ==
    LET groups == GroupsOf(chosen, <<>>)
    IN  [i \in 1..Len(chosen) |->
            Field(chosen[i].name, chosen[i].type, chosen[i].label,
                  chosen[i].type_name,
                  IF chosen[i].group = "" THEN <<>>
                  ELSE <<(CHOOSE k \in 1..Len(groups) :
                              groups[k] = chosen[i].group) - 1>>)]

OneofsOf(chosen) ==
    LET groups == GroupsOf(chosen, <<>>)
    IN  [i \in 1..Len(groups) |-> [name |-> groups[i]]]

\* map<string, dep.Other> attrs: the entry message protoc synthesises
AttrsEntry ==
    Message("AttrsEntry",
            <<Field("key", "TYPE_STRING", OPTIONAL, "", <<>>),
              Field("value", "TYPE_MESSAGE", OPTIONAL, ".dep.Other", <<>>)>>,
            <<>>, <<>>, <<>>, TRUE)

\* pkg/subject.proto: package pkg; message Outer with the chosen fields
SubjectFile(syntax, chosen) ==
    File("pkg/subject.proto", "pkg", syntax,
         <<Message("Outer", FieldsOf(chosen), <<AttrsEntry>>, <<>>,
                   OneofsOf(chosen), FALSE)>>,
         <<>>, <<>>, <<>>, FALSE)

FieldRequests ==
    {Request(<<DepFile, SubjectFile(syntax, chosen)>>,
             <<"pkg/subject.proto">>, "quiet") :
        <<syntax, chosen>> \in
            {"proto2", "proto3"} \X FieldChoices(MaxFields)}

\* A file with no package: messages nested three deep, siblings, reserved
\* names at every kind of declaration, services and extensions.
\*   message A { message B { message C { enum E { E0 = 0; class = 1; }
\*                                        int32 x; }
\*                           message D {}
\*                           C c; }
\*               message class {}
\*               B b; }
\*   message pass { message Z {} }
\*   enum Color { RED = 0; not = 1; BLUE = 2; }   enum global { G0 = 0; }
\*   service Svc { rpc Get(A) returns (dep.Other);
\*                 rpc import(A) returns (A);
\*                 rpc Watch(A.B) returns (stream A.B.C); }
\*   service def { rpc Get(A) returns (A); }   service Idle {}
\*   extend ... { int32 ext_a; int32 lambda; }
TreeFile(name, py_generic_services) ==
    File(name, "", "proto3",
         <<Message("A",
               <<Field("b", "TYPE_MESSAGE", OPTIONAL, ".A.B", <<>>)>>,
               <<Message("B",
                     <<Field("c", "TYPE_MESSAGE", OPTIONAL, ".A.B.C", <<>>)>>,
                     <<Message("C",
                           <<Field("x", "TYPE_INT32", OPTIONAL, "", <<>>)>>,
                           <<>>,
                           <<Enum("E", <<EnumValue("E0", 0),
                                         EnumValue("class", 1)>>)>>,
                           <<>>, FALSE),
                       Message("D", <<>>, <<>>, <<>>, <<>>, FALSE)>>,
                     <<>>, <<>>, FALSE),
                 Message("class", <<>>, <<>>, <<>>, <<>>, FALSE)>>,
               <<>>, <<>>, FALSE),
           Message("pass", <<>>,
               <<Message("Z", <<>>, <<>>, <<>>, <<>>, FALSE)>>,
               <<>>, <<>>, FALSE)>>,
         <<Enum("Color", <<EnumValue("RED", 0), EnumValue("not", 1),
                           EnumValue("BLUE", 2)>>),
           Enum("global", <<EnumValue("G0", 0)>>)>>,
         <<Service("Svc", <<Method("Get", ".A", ".dep.Other", FALSE),
                            Method("import", ".A", ".A", FALSE),
                            Method("Watch", ".A.B", ".A.B.C", TRUE)>>),
           Service("def", <<Method("Get", ".A", ".A", FALSE)>>),
           Service("Idle", <<>>)>>,
         <<Field("ext_a", "TYPE_INT32", OPTIONAL, "", <<>>),
           Field("lambda", "TYPE_INT32", OPTIONAL, "", <<>>)>>,
         py_generic_services)

\* the names a requested file may have
FileNames ==
    {"tree.proto", "x/tree.proto", "x/my-tree.proto", "x.y/tree.proto",
     "x/tree.txt"}

\* The lists of files to generate, for a request that holds dep/other.proto
\* and the file named name.
ToGenerate(name) ==
    {<<name>>, <<name, "dep/other.proto">>, <<"dep/other.proto", name>>,
     <<name, name>>, <<"dep/other.proto", "absent.proto">>}

TreeRequestsNamed(name) ==
    {Request(<<DepFile, TreeFile(name, c[1])>>, c[2], c[3]) :
        c \in {c \in BOOLEAN \X ToGenerate(name) \X {"", "quiet"} :
                  c[3] = "" => c[1]}}

TreeRequests == UNION {TreeRequestsNamed(name) : name \in FileNames}

\* pkg/broken.proto: a file in which one kind of declaration refers to
\* the type .pkg.Gone, which no file defines.
\*   "extension":       extend ... { Gone ext = 1; }
\*   "reserved field":  message Holder { Gone class = 1; }
\*   "reserved message": message pass { Gone x = 1; }
\*   "method":          service S { rpc Get(Gone) returns (Holder); }
\*   "reserved method": service S { rpc import(Holder) returns (Gone); }
\*   "reserved service": service def { rpc Get(Gone) returns (Holder); }
\*   "enum field":      message Holder { Gone x = 1; } with x of enum type
\*   "repeated field":  message Holder { repeated Gone x = 1; }
BrokenKinds ==
    {"extension", "reserved field", "reserved message", "method",
     "reserved method", "reserved service", "enum field", "repeated field"}

BrokenFile(kind, py_generic_services) ==
    File("pkg/broken.proto", "pkg", "proto3",
         <<Message(IF kind = "reserved message" THEN "pass" ELSE "Holder",
               IF kind \in {"reserved field", "reserved message",
                            "enum field", "repeated field"}
               THEN <<Field(IF kind = "reserved field" THEN "class" ELSE "x",
                          IF kind = "enum field" THEN "TYPE_ENUM"
                          ELSE "TYPE_MESSAGE",
                          IF kind = "repeated field" THEN "LABEL_REPEATED"
                          ELSE OPTIONAL,
                          ".pkg.Gone", <<>>)>>
               ELSE <<>>,
               <<>>, <<>>, <<>>, FALSE),
           Message("Kept", <<>>, <<>>, <<>>, <<>>, FALSE)>>,
         <<>>,
         IF kind \in {"method", "reserved method", "reserved service"}
         THEN <<Service(IF kind = "reserved service" THEN "def" ELSE "S",
                    <<Method(IF kind = "reserved method" THEN "import"
                             ELSE "Get",
                          IF kind = "reserved method" THEN ".pkg.Kept"
                          ELSE ".pkg.Gone",
                          IF kind = "reserved method" THEN ".pkg.Gone"
                          ELSE ".pkg.Kept", FALSE)>>)>>
         ELSE <<>>,
         IF kind = "extension"
         THEN <<Field("ext", "TYPE_MESSAGE", OPTIONAL, ".pkg.Gone", <<>>)>>
         ELSE <<>>,
         py_generic_services)

BrokenRequests ==
    {Request(<<DepFile, BrokenFile(c[1], c[2])>>,
             <<"dep/other.proto", "pkg/broken.proto">>, "quiet") :
        c \in BrokenKinds \X BOOLEAN}

Requests == FieldRequests \cup TreeRequests \cup BrokenRequests

\* what the process may find on its input stream: a serialised request, or
\* bytes that do not parse
Inputs ==
    {[wellformed |-> TRUE, request |-> req] : req \in Requests}
        \cup {[wellformed |-> FALSE,
                request |-> Request(<<>>, <<>>, "")]}

----------------------------------------------------------------------------
(* The process: wrap_code_generator around main or grpc.  write_messages   *)
(* recurses over the message tree; each of its invocations is a frame of   *)
(* stack: [messages |-> the messages its loop has still to write,          *)
(* prefix, message_class, open |-> <<desc>> while it is inside the with    *)
(* block of desc and waits for the nested invocation, else <<>>].          *)

NoRequest == [proto_file |-> <<>>, file_to_generate |-> <<>>, parameter |-> ""]

NoDescriptors ==
    [ok |-> TRUE, files |-> <<>>, to_generate |-> <<>>, messages |-> <<>>,
     message_to_fd |-> <<>>]

NoWriter == PkgWriter(0)

NoField == Field("", "", OPTIONAL, "", <<>>)

NoCall ==
    [op |-> "", path |-> "", name |-> "", field |-> NoField, v |-> "",
     again |-> FALSE, before |-> NoWriter]

NoResponse == [supported_features |-> {}, file |-> <<>>]

\* "quiet" in request.parameter
quiet == Contains(request.parameter, "quiet")

\* the call write_messages(messages, prefix) up to its loop: the writer,
\* and the frame of the new invocation
write_messages_call(w) == _import(w, "google.protobuf.message", "Message")

write_messages_frame(messages, prefix) ==
    [messages |-> NotReserved(messages), prefix |-> prefix,
     message_class |-> _import_result("google.protobuf.message", "Message"),
     open |-> <<>>]

\* write_messages' loop body for desc, up to the nested write_messages call
write_message_open(w, desc, frame) ==
    LET w1 == _write_line([w EXCEPT !.locals = @ \cup {desc.name}],
                  "class {}({}):", <<desc.name, frame.message_class>>)
        w2 == _import(IndentEnter(w1), "google.protobuf.descriptor",
                  "Descriptor")
        w3 == _write_line(w2, "DESCRIPTOR: {} = ...",
                  <<_import_result("google.protobuf.descriptor",
                        "Descriptor")>>)
    IN  write_messages_call(
            write_enums(w3, desc.enum_type,
                frame.prefix \o desc.name \o "."))

\* write_messages' loop body for desc, after the nested write_messages call
write_message_close(w, desc) ==
    _write_line(
        _write_line(IndentExit(write_message_fields(w, desc)), "{} = {}",
            <<_mangle_message(desc.name), desc.name>>),
        "", <<>>)

\* generate_mypy_stubs' loop body after write_messages returned, up to the
\* asserts
write_file_tail(w, fd) ==
    IF fd.options.py_generic_services
    THEN write_services(write_extensions(w, fd.extension), fd.service)
    ELSE write_extensions(w, fd.extension)

\* output.name
output_name(fd, suffix) ==
    replace(replace(DropLast(fd.name, 6), "-", "_"), ".", "/") \o suffix

\* response.file.add() with its name and content set
add_output(resp, name, content) ==
    [resp EXCEPT !.file = Append(@, [name |-> name, content |-> content])]

\* print("Writing mypy to", output.name, file=sys.stderr)
report(err, name) ==
    IF quiet THEN err ELSE Append(err, "Writing mypy to " \o name)

Top == stack[Len(stack)]

Pop == SubSeq(stack, 1, Len(stack) - 1)

\* Abort with a handler that writes the response built so far
AbortFlushing ==
    /\ pc' = "aborted"
    /\ stdout' = Append(stdout, response)
    /\ UNCHANGED <<todo, stack, response, stderr>>

\* an exception leaves wrapper: the process ends, nothing is written
Abort ==
    /\ pc' = "aborted"
    /\ UNCHANGED <<todo, stack, response, stderr, stdout>>

\* wrapper: read stdin, parse the request, create the response
ReadRequest ==
    /\ pc = "start"
    /\ \E seed \in 0..MaxHashSeed : hashseed' = seed
    /\ IF stdin.wellformed
       THEN /\ request' = stdin.request
            /\ response' = [supported_features |-> {"FEATURE_PROTO3_OPTIONAL"},
                            file |-> <<>>]
            /\ pc' = "parsed"
       ELSE /\ pc' = "aborted"
            /\ UNCHANGED <<request, response>>
    /\ UNCHANGED <<entry, stdin, descriptors, todo, pkg_writer, stack, stdout,
                   stderr, run, prev_stdout, prev_hashseed, callvars>>

\* main / grpc: Descriptors(request)
BuildDescriptors ==
    /\ pc = "parsed"
    /\ descriptors' = Descriptors(request)
    /\ IF descriptors'.ok
       THEN /\ todo' = descriptors'.to_generate
            /\ pc' = "generate"
       ELSE /\ pc' = "aborted"
            /\ todo' = <<>>
    /\ UNCHANGED <<entry, stdin, hashseed, request, pkg_writer, stack,
                   response, stdout, stderr, run, prev_stdout, prev_hashseed, callvars>>

\* generate_mypy_stubs: the next file, up to the loop of write_messages
StartFile ==
    /\ pc = "generate"
    /\ entry = "main"
    /\ todo # <<>>
    /\ pkg_writer' =
           write_messages_call(
               write_enums(write_module_attributes(PkgWriter(todo[1][2])),
                   FileOf(todo[1][2]).enum_type, ""))
    /\ stack' = <<write_messages_frame(FileOf(todo[1][2]).message_type, "")>>
    /\ pc' = "messages"
    /\ UNCHANGED <<entry, stdin, hashseed, request, descriptors, todo,
                   response, stdout, stderr, run, prev_stdout, prev_hashseed, callvars>>

\* write_messages: the class line of the next message, its nested enums,
\* and the call of write_messages for its nested messages
MessageOpen ==
    /\ pc = "messages"
    /\ stack # <<>>
    /\ Top.open = <<>>
    /\ Top.messages # <<>>
    /\ pkg_writer' = write_message_open(pkg_writer, Top.messages[1], Top)
    /\ stack' = Append(Append(Pop,
                           [Top EXCEPT !.messages = Tail(@),
                                       !.open = <<Top.messages[1]>>]),
                       write_messages_frame(Top.messages[1].nested_type,
                           Top.prefix \o Top.messages[1].name \o "."))
    /\ UNCHANGED <<entry, stdin, hashseed, pc, request, descriptors, todo,
                   response, stdout, stderr, run, prev_stdout, prev_hashseed, callvars>>

\* write_messages: the loop is over, the invocation returns
MessagesReturn ==
    /\ pc = "messages"
    /\ stack # <<>>
    /\ Top.open = <<>>
    /\ Top.messages = <<>>
    /\ stack' = Pop
    /\ UNCHANGED <<entry, stdin, hashseed, pc, request, descriptors, todo,
                   pkg_writer, response, stdout, stderr, run, prev_stdout,
                   prev_hashseed, callvars>>

\* write_messages: the rest of the loop body of the message that is open
MessageClose ==
    /\ pc = "messages"
    /\ stack # <<>>
    /\ Top.open # <<>>
    /\ pkg_writer' = write_message_close(pkg_writer, Top.open[1])
    /\ IF pkg_writer'.ok
       THEN /\ stack' = Append(Pop, [Top EXCEPT !.open = <<>>])
            /\ UNCHANGED <<pc, todo, response, stderr, stdout>>
       ELSE Abort
    /\ UNCHANGED <<entry, stdin, hashseed, request, descriptors, run,
                   prev_stdout, prev_hashseed, callvars>>

\* generate_mypy_stubs: the rest of the loop body, after write_messages
FinishFile ==
    /\ pc = "messages"
    /\ stack = <<>>
    /\ LET name == todo[1][1]
           fd == FileOf(todo[1][2])
           out == output_name(fd, "_pb2.pyi")
       IN  /\ pkg_writer' = write_file_tail(pkg_writer, fd)
           /\ IF pkg_writer'.ok /\ name = fd.name /\ endswith(fd.name, ".proto")
              THEN /\ response' = add_output(response, out,
                                      HEADER \o write(pkg_writer'))
                   /\ stderr' = report(stderr, out)
                   /\ todo' = Tail(todo)
                   /\ pc' = "generate"
                   /\ UNCHANGED <<stack, stdout>>
              ELSE Abort
    /\ UNCHANGED <<entry, stdin, hashseed, request, descriptors, run,
                   prev_stdout, prev_hashseed, callvars>>

\* generate_mypy_grpc_stubs: one pass of the loop
GrpcFile ==
    /\ pc = "generate"
    /\ entry = "grpc"
    /\ todo # <<>>
    /\ LET name == todo[1][1]
           fd == FileOf(todo[1][2])
           out == output_name(fd, "_pb2_grpc.pyi")
       IN  /\ pkg_writer' = write_grpc_services(PkgWriter(todo[1][2]),
                                fd.service)
           /\ IF pkg_writer'.ok /\ name = fd.name /\ endswith(fd.name, ".proto")
              THEN /\ response' = add_output(response, out,
                                      HEADER \o write(pkg_writer'))
                   /\ stderr' = report(stderr, out)
                   /\ todo' = Tail(todo)
                   /\ UNCHANGED <<pc, stack, stdout>>
              ELSE Abort
    /\ UNCHANGED <<entry, stdin, hashseed, request, descriptors, run,
                   prev_stdout, prev_hashseed, callvars>>

\* wrapper: serialise the response and write it to stdout.  stdout holds the
\* messages written, each as the message that was serialised.
WriteResponse ==
    /\ pc = "generate"
    /\ todo = <<>>
    /\ stdout' = Append(stdout, response)
    /\ pc' = "done"
    /\ UNCHANGED <<entry, stdin, hashseed, request, descriptors, todo,
                   pkg_writer, stack, response, stderr, run, prev_stdout,
                   prev_hashseed, callvars>>

\* protoc starts the plugin once more on the same request
Rerun ==
    /\ pc \in {"done", "aborted"}
    /\ run = 1
    /\ run' = 2
    /\ prev_stdout' = stdout
    /\ prev_hashseed' = hashseed
    /\ pc' = "start"
    /\ request' = NoRequest
    /\ descriptors' = NoDescriptors
    /\ todo' = <<>>
    /\ pkg_writer' = NoWriter
    /\ stack' = <<>>
    /\ response' = NoResponse
    /\ stdout' = <<>>
    /\ stderr' = <<>>
    /\ UNCHANGED <<entry, stdin, hashseed, callvars>>

----------------------------------------------------------------------------
Init ==
    /\ entry \in {"main", "grpc"}
    /\ stdin \in Inputs
    /\ hashseed = 0
    /\ pc = "start"
    /\ request = NoRequest
    /\ descriptors = NoDescriptors
    /\ todo = <<>>
    /\ pkg_writer = NoWriter
    /\ stack = <<>>
    /\ response = NoResponse
    /\ stdout = <<>>
    /\ stderr = <<>>
    /\ run = 1
    /\ prev_stdout = <<>>
    /\ prev_hashseed = 0
    /\ requested = {}
    /\ rendered = ""
    /\ last_call = NoCall
    /\ calls = 0

Next ==
    \/ ReadRequest
    \/ BuildDescriptors
    \/ StartFile
    \/ MessageOpen
    \/ MessagesReturn
    \/ MessageClose
    \/ FinishFile
    \/ GrpcFile
    \/ WriteResponse
    \/ Rerun

Spec == Init /\ [][Next]_vars


----------------------------------------------------------------------------
(* Determinism and output *)

\* the process has ended
Ended == pc \in {"done", "aborted"}

\* C1: a second run of the same entry point on the same request, under
\* whatever hash seed, writes the same response as the first: the same
\* entries in the same order, with equal names and equal content.
C1_Determinism == (run = 2 /\ Ended) => stdout = prev_stdout

\* two runs under different hash seeds that wrote two stubs, the first of
\* which imports several names from one module
C1_Witness ==
    /\ run = 2
    /\ pc = "done"
    /\ hashseed # prev_hashseed
    /\ stdout # <<>>
    /\ Len(stdout[1].file) = 2
    /\ \E pkg \in DOMAIN pkg_writer.imports :
           Cardinality(pkg_writer.imports[pkg]) > 1

\* C3: the output stream holds something only once the process is done,
\* the request was read, and every file to generate has its entry; then it
\* holds the one response.  A process that failed has written nothing.
C3_NoPartialOutput ==
    /\ stdout # <<>> =>
           /\ pc = "done"
           /\ request = stdin.request
           /\ todo = <<>>
           /\ Len(response.file) = Len(descriptors.to_generate)
           /\ stdout = <<response>>
    /\ pc = "aborted" => stdout = <<>>

\* a file failed after an earlier file of the request was emitted
C3_Witness == pc = "aborted" /\ response.file # <<>> /\ stdout = <<>>

----------------------------------------------------------------------------
(* Requests as protoc hands them over *)

\* a list of messages with the messages nested in them, at any depth
RECURSIVE MessagesIn(_)
MessagesIn(messages) ==
    IF messages = <<>> THEN <<>>
    ELSE <<messages[1]>> \o MessagesIn(messages[1].nested_type)
             \o MessagesIn(Tail(messages))

Range(q) == {q[i] : i \in 1..Len(q)}

\* the type names the fields, extension fields and methods of a file refer
\* to
TypeRefs(fd) ==
    {f.type_name : f \in
        {f \in UNION {Range(m.field) : m \in Range(MessagesIn(fd.message_type))} :
            f.type \in {"TYPE_MESSAGE", "TYPE_GROUP", "TYPE_ENUM"}}}
    \cup UNION {{m.input_type, m.output_type} :
                  m \in UNION {Range(sv.method) : sv \in Range(fd.service)}}
    \cup {f.type_name : f \in
            {f \in Range(fd.extension) :
                f.type \in {"TYPE_MESSAGE", "TYPE_GROUP", "TYPE_ENUM"}}}

\* the names the index of Descriptors holds for a request
Indexed(req) ==
    DOMAIN index_files([messages |-> <<>>, message_to_fd |-> <<>>],
               req.proto_file, 1).message_to_fd

\* a request protoc can send: the files have distinct names that end in
\* ".proto", the files to generate are among them, and every type
\* reference resolves
ValidRequest(req) ==
    /\ \A i, j \in 1..Len(req.proto_file) :
           req.proto_file[i].name = req.proto_file[j].name => i = j
    /\ \A i \in 1..Len(req.proto_file) :
           endswith(req.proto_file[i].name, ".proto")
    /\ \A i \in 1..Len(req.file_to_generate) :
           \E j \in 1..Len(req.proto_file) :
               req.proto_file[j].name = req.file_to_generate[i]
    /\ \A i \in 1..Len(req.proto_file) :
           \A t \in TypeRefs(req.proto_file[i]) :
               t \in Indexed(req)

\* a list without the repetitions of its elements, in order of first place
RECURSIVE Distinct(_)
Distinct(q) ==
    IF q = <<>> THEN <<>>
    ELSE LET rest == Distinct(SubSeq(q, 1, Len(q) - 1))
         IN  IF q[Len(q)] \in Range(rest) THEN rest
             ELSE Append(rest, q[Len(q)])

\* the name of the stub of a file: ".proto" stripped, hyphens and the dots
\* of the path normalised, the suffix appended
StubName(name, suffix) ==
    replace(replace(DropLast(name, 6), "-", "_"), ".", "/") \o suffix

\* the line by which the gateway stub of a file re-exports its general
\* module: a relative import of the module in the same directory
ReExport(name) ==
    "from ."
        \o replace(DropLast(split(name, "/")[Len(split(name, "/"))], 6),
               "-", "_")
        \o "_pb2 import *"

\* C2: on a request protoc can send, the process ends with one entry for
\* each file to generate, in order, named after the file with the suffix
\* of the generator; its content starts with the marker line, and the
\* gateway content holds the relative import of the general module.
C2_OneEntryPerFile ==
    (Ended /\ stdin.wellformed /\ ValidRequest(stdin.request)) =>
        /\ pc = "done"
        /\ Len(response.file) = Len(Distinct(stdin.request.file_to_generate))
        /\ \A i \in 1..Len(response.file) :
               LET name == Distinct(stdin.request.file_to_generate)[i]
               IN  /\ response.file[i].name =
                          StubName(name, IF entry = "main" THEN "_pb2.pyi"
                                         ELSE "_pb2_grpc.pyi")
                   /\ startswith(response.file[i].content, HEADER)
                   /\ entry = "grpc" =>
                          ReExport(name) \in
                              Range(split(response.file[i].content, "\n"))

\* C2 for the general generator alone
C2_General == entry = "main" => C2_OneEntryPerFile

----------------------------------------------------------------------------
(* Reading a stub *)

\* a line without its leading spaces
RECURSIVE lstrip(_)
lstrip(s) == IF startswith(s, " ") THEN lstrip(From(s, 2)) ELSE s

\* the stub of the i-th response entry, as lines
StubLines(i) == Range(split(response.file[i].content, "\n"))

\* the files of the request that the i-th response entry is generated for
SourcesOf(i) ==
    {fd \in Range(request.proto_file) :
        fd.name = Distinct(request.file_to_generate)[i]}

\* the line declares name: a class, a function or method, an attribute or
\* constant, or a keyword parameter of a constructor
Declares(line, name) ==
    \E l \in {lstrip(line)} :
        \/ startswith(l, "class " \o name \o "(")
        \/ startswith(l, "class " \o name \o ":")
        \/ startswith(l, "def " \o name \o "(")
        \/ startswith(l, name \o ": ")
        \/ startswith(l, name \o " : ")
        \/ startswith(l, name \o " = ")

\* the line holds a literal union of which name is a member
LiteralMember(line, name) ==
    /\ Contains(line, "Literal[")
    /\ Contains(line, "u\"" \o name \o "\"")

\* the enums of a file, those of its messages included
EnumsIn(fd) ==
    Range(fd.enum_type)
        \cup UNION {Range(m.enum_type) : m \in Range(MessagesIn(fd.message_type))}

\* the names of the messages, fields of messages, enum values and service
\* methods of a file
DeclaredNames(fd) ==
    {m.name : m \in Range(MessagesIn(fd.message_type))}
    \cup UNION {{f.name : f \in Range(m.field)} :
                  m \in Range(MessagesIn(fd.message_type))}
    \cup UNION {{v.name : v \in Range(e.value)} : e \in EnumsIn(fd)}
    \cup UNION {{m.name : m \in Range(sv.method)} : sv \in Range(fd.service)}

\* the names of the extension fields of a file
ExtensionNames(fd) == {f.name : f \in Range(fd.extension)}

\* no stub declares a reserved word that names a message, a field of a
\* message, an enum value or a method of its file
C4_NoDeclaration ==
    pc = "done" =>
        \A i \in 1..Len(response.file) : \A fd \in SourcesOf(i) :
            \A name \in DeclaredNames(fd) \cap PYTHON_RESERVED :
                \A line \in StubLines(i) : ~Declares(line, name)

\* no stub declares a reserved word that names an extension field of its file
C4_NoExtensionDeclaration ==
    pc = "done" =>
        \A i \in 1..Len(response.file) : \A fd \in SourcesOf(i) :
            \A name \in ExtensionNames(fd) \cap PYTHON_RESERVED :
                \A line \in StubLines(i) : ~Declares(line, name)

\* no literal union of a stub has a reserved word that names a field of its
\* file as a member
C4_NoLiteralMember ==
    pc = "done" =>
        \A i \in 1..Len(response.file) : \A fd \in SourcesOf(i) :
            \A name \in DeclaredNames(fd) \cap PYTHON_RESERVED :
                \A line \in StubLines(i) : ~LiteralMember(line, name)

\* C4: a message, field, enum value or service method whose name is a
\* reserved word has no declaration in the stub of its file (no class, no
\* attribute or accessor, no constructor parameter, no constant, no method
\* signature), and its name is a member of no HasField, ClearField or
\* WhichOneof literal union.
C4_ReservedOmitted ==
    /\ C4_NoDeclaration
    /\ C4_NoExtensionDeclaration
    /\ C4_NoLiteralMember

----------------------------------------------------------------------------
(* What a step of write_messages writes *)

\* the step is the rest of the loop body of the message that is open, and
\* no exception is raised in it
ClosesMessage ==
    /\ pc = "messages" /\ stack # <<>> /\ Top.open # <<>>
    /\ pkg_writer'.ok

\* the step is the start of the loop body of the next message
OpensMessage ==
    pc = "messages" /\ stack # <<>> /\ Top.open = <<>> /\ Top.messages # <<>>

\* the lines the step appends, as text
Written ==
    LineTexts(SubSeq(pkg_writer'.lines, Len(pkg_writer.lines) + 1,
                  Len(pkg_writer'.lines)))

\* the lines of q that start, after their indentation, with prefix
Starting(q, prefix) ==
    SelectSeq(q, LAMBDA t : startswith(lstrip(t), prefix))

\* the text between the k-th opening bracket of a line and the bracket
\* that closes it, for brackets that are not nested
Bracket(t, k) == split(split(t, "[")[k + 1], "]")[1]

\* the text between the innermost brackets of a type expression
Innermost(t) == split(split(t, "[")[Len(split(t, "["))], "]")[1]

\* the names a literal union lists as text-string and byte-string literals
BothForms(names) ==
    UNION {{"u\"" \o n \o "\"", "b\"" \o n \o "\""} : n \in names}

\* the fields of a message that HasField can be asked about
Eligible(desc) ==
    {f \in Range(desc.field) :
        \/ f.oneof_index # <<>>
        \/ /\ f.label # "LABEL_REPEATED"
           /\ \/ FileOf(pkg_writer.fd).syntax # "proto3"
              \/ f.type = "TYPE_MESSAGE"}

HasPresence(desc) ==
    {f.name : f \in Eligible(desc)} \cup {o.name : o \in Range(desc.oneof_decl)}

C5_Step ==
    ClosesMessage =>
        \A has \in {Starting(Written, "def HasField(")} :
        \A expected \in {HasPresence(Top.open[1])} :
            /\ Len(has) = IF expected = {} THEN 0 ELSE 1
            /\ \A i \in 1..Len(has) :
               \A members \in {split(Bracket(has[i], 1), ",")} :
                   /\ Range(members) = BothForms(expected)
                   /\ Len(members) = 2 * Cardinality(expected)

\* C5: for every message that is written, the HasField signature is
\* written if and only if the message has a field that is in a oneof, or
\* is not repeated and either of message type or in a file that is not
\* proto3, or has a oneof; its literal union lists exactly the names of
\* those fields and of the oneofs, each once as a text-string and once as
\* a byte-string literal.
C5_HasFieldMembers == [][C5_Step]_vars

\* a proto3 message was written in which HasField takes a oneof and fewer
\* names than ClearField
C5_Witness ==
    /\ pkg_writer.ok
    /\ \E i \in 1..Len(pkg_writer.lines) - 1 :
       \E has \in {LineText(pkg_writer.lines[i])} :
       \E clear \in {LineText(pkg_writer.lines[i + 1])} :
           /\ startswith(lstrip(has), "def HasField(")
           /\ startswith(lstrip(clear), "def ClearField(")
           /\ FileOf(pkg_writer.fd).syntax = "proto3"
           /\ "u\"g\"" \in Range(split(Bracket(has, 1), ","))
           /\ Len(split(Bracket(has, 1), ","))
                  < Len(split(Bracket(clear, 1), ","))

\* the WhichOneof signatures among q that accept the oneof named g, and
\* nothing else
WhichOneofOf(q, g) ==
    SelectSeq(Starting(q, "def WhichOneof("),
        LAMBDA t : Bracket(t, 1) = "u\"" \o g \o "\",b\"" \o g \o "\"")

\* the return type of a signature: the text between "-> " and ": ..."
ReturnType(t) == SubSeq(split(t, ">")[2], 2, Len(split(t, ">")[2]) - 5)

\* a return type that admits None
AdmitsNone(type) == Contains(type, "None") \/ Contains(type, "Optional[")

\* the names of the fields of desc that are members of its idx-th oneof
MembersOf(desc, idx) ==
    {"\"" \o f.name \o "\"" :
        f \in {f \in Range(desc.field) : f.oneof_index = <<idx - 1>>}}

\* for every oneof of the message one WhichOneof signature is written; it
\* accepts the name of the oneof alone and the literals of its return type
\* are the names of the members of the oneof
C6_MembersStep ==
    ClosesMessage =>
        \A which \in {Starting(Written, "def WhichOneof(")} :
            /\ Len(which) = Len(Top.open[1].oneof_decl)
            /\ \A idx \in 1..Len(Top.open[1].oneof_decl) :
               \A of \in {WhichOneofOf(which, Top.open[1].oneof_decl[idx].name)} :
                   /\ Len(of) = 1
                   /\ \A k \in 1..Len(of) :
                          Range(split(Bracket(of[k], 2), ","))
                              = MembersOf(Top.open[1], idx)

C6_Members == [][C6_MembersStep]_vars

\* the return type of every WhichOneof signature admits None
C6_NoneStep ==
    ClosesMessage =>
        \A which \in {Starting(Written, "def WhichOneof(")} :
            \A k \in 1..Len(which) : AdmitsNone(ReturnType(which[k]))

\* C6: for every oneof of a message that is written, exactly one
\* WhichOneof signature is written; it accepts the name of the oneof
\* alone, and it returns None or one of the literals that name the fields
\* of that oneof, and no other field.
C6_WhichOneof == [][C6_MembersStep /\ C6_NoneStep]_vars

\* the line of q that declares the accessor of the field named name: a
\* property, or an attribute for a field of scalar type
AccessorsOf(q, name) ==
    Starting(q, "def " \o name \o "(self) -> ")
        \o Starting(q, name \o ": ")

\* the line of q that declares the constructor parameter named name
ParametersOf(q, name) == Starting(q, name \o " : ")

\* the type of a field's accessor or parameter is a mapping over the two
\* types in params
IsMapping(t, params) ==
    /\ Contains(t, "Mapping[")
    /\ ~Contains(t, "Container[") /\ ~Contains(t, "Iterable[")
    /\ split(Innermost(t), ",") = <<params[1], " " \o params[2]>>

\* the type of a field's accessor or parameter is a container over, or a
\* sequence of, one element type
IsSequence(t, param) ==
    /\ Contains(t, "Container[") \/ Contains(t, "Iterable[")
    /\ ~Contains(t, "Mapping[")
    /\ split(Innermost(t), ",") = <<param>>

\* the repeated fields of a message for which declarations are written
RepeatedFields(desc) ==
    {f \in Range(NotReserved(desc.field)) : f.label = "LABEL_REPEATED"}

\* the message a field refers to is the entry of a map
RefersToMapEntry(f) ==
    /\ f.type \in {"TYPE_MESSAGE", "TYPE_GROUP"}
    /\ \E name \in DOMAIN descriptors.messages :
           name = f.type_name /\ descriptors.messages[name].options.map_entry

C7_Step ==
    ClosesMessage =>
        \A written \in {Written} : \A f \in RepeatedFields(Top.open[1]) :
        \A accessors \in {AccessorsOf(written, f.name)} :
        \A parameters \in {ParametersOf(written, f.name)} :
            /\ Len(accessors) = 1
            /\ Len(parameters) = 1
            /\ IF RefersToMapEntry(f)
               THEN \A params \in
                        {<<python_type_result(pkg_writer.fd,
                               descriptors.messages[f.type_name].field[1]),
                           python_type_result(pkg_writer.fd,
                               descriptors.messages[f.type_name].field[2])>>} :
                        /\ IsMapping(accessors[1], params)
                        /\ IsMapping(parameters[1], params)
               ELSE \A param \in {python_type_result(pkg_writer.fd, f)} :
                        /\ IsSequence(accessors[1], param)
                        /\ IsSequence(parameters[1], param)

\* C7: for every repeated field that is written, the accessor and the
\* constructor parameter classify the field alike: when the message the
\* field refers to is a map entry, both are mappings over the types of
\* the entry's first and second field; otherwise both are containers or
\* sequences of one element type.
C7_MapDetection == [][C7_Step]_vars

\* a message with a map field and a repeated field of another message was
\* written
C7_Witness ==
    /\ pkg_writer.ok
    /\ pc = "messages" /\ stack # <<>> /\ Top.open = <<>>
    /\ \E written \in {LineTexts(pkg_writer.lines)} :
           /\ Starting(written, "def attrs(self) -> typing___MutableMapping[")
                  # <<>>
           /\ Starting(written, "attrs : typing___Optional[typing___Mapping[")
                  # <<>>
           /\ Starting(written, "def others(self) -> ") # <<>>
           /\ Starting(written, "others : typing___Optional[typing___Iterable[")
                  # <<>>

\* the number of spaces a line starts with
Indentation(t) == Len(t) - Len(lstrip(t))

\* the messages that are open: those of the frames that wait for a nested
\* invocation of write_messages
Enclosing(frames) == SelectSeq(frames, LAMBDA fr : fr.open # <<>>)

\* the dotted path of the messages that are open, with a dot at its end
RECURSIVE Path(_)
Path(frames) ==
    IF frames = <<>> THEN ""
    ELSE Path(SubSeq(frames, 1, Len(frames) - 1))
             \o frames[Len(frames)].open[1].name \o "."

\* the indentation is four spaces for each message that is open
Indented ==
    (pkg_writer.ok /\ pc \in {"messages", "generate", "done"}) =>
        Len(pkg_writer.indent) = 4 * Len(Enclosing(stack))

C8_Step ==
    /\ OpensMessage =>
           \A written \in {Written} : \A n \in {Len(Enclosing(stack))} :
               /\ Len(written) >= 2
               /\ Indentation(written[1]) = 4 * n
               /\ startswith(lstrip(written[1]),
                      "class " \o Top.messages[1].name \o "(")
               /\ Indentation(written[2]) = 4 * (n + 1)
               /\ startswith(lstrip(written[2]), "DESCRIPTOR: ")
               /\ \A i \in 3..Len(written) :
                      written[i] # "" => Indentation(written[i]) >= 4 * (n + 1)
               /\ stack'[Len(stack')].prefix =
                      Path(Enclosing(stack)) \o Top.messages[1].name \o "."
               /\ Len(pkg_writer'.indent) = Len(pkg_writer.indent) + 4
    /\ ClosesMessage =>
           \A written \in {Written} : \A n \in {Len(Enclosing(stack)) - 1} :
               /\ Len(written) >= 2
               /\ \A i \in 1..Len(written) - 2 :
                      written[i] # "" => Indentation(written[i]) >= 4 * (n + 1)
               /\ Indentation(written[Len(written) - 1]) = 4 * n
               /\ startswith(lstrip(written[Len(written) - 1]),
                      "type___" \o Top.open[1].name \o " = ")
               /\ Len(pkg_writer'.indent) = Len(pkg_writer.indent) - 4
    /\ Indented'
    /\ (pc = "messages" /\ stack = <<>> /\ pkg_writer.ok) => pkg_writer.indent = ""

\* C8: a message nested under n messages is written with its class line
\* at 4*n spaces and its body at 4*(n+1) spaces or more, and the prefix
\* handed to its nested types is the dotted path of the enclosing
\* messages followed by its own name; leaving a message restores the
\* indentation in force before it was entered, and the indentation is
\* empty when the messages of the file are written.
C8_Nesting == [][C8_Step]_vars

\* a message nested under two messages is open
C8_Witness ==
    /\ pc = "messages"
    /\ Len(stack) = 4
    /\ Top.prefix = "A.B.C."
    /\ pkg_writer.indent = "            "
    /\ \E i \in 1..Len(pkg_writer.lines) :
           LineText(pkg_writer.lines[i]) =
               "        class C(google___protobuf___message___Message):"

----------------------------------------------------------------------------
(* A writer that is called from outside: any sequence of _import or        *)
(* _import_message calls, and write()                                      *)

\* the variables of the process, which these calls leave alone
procvars ==
    <<entry, stdin, hashseed, pc, request, descriptors, todo, stack, response,
      stdout, stderr, run, prev_stdout, prev_hashseed>>

\* the arguments _import is called with
ImportPaths == {"typing", "a/b", "a.b", "a"}

ImportNames == {"X", "Y", "b___X"}

\* path.replace("/", "."): the module a path names
Module(path) == replace(path, "/", ".")

\* self._import(path, name)
ImportCall ==
    /\ calls < MaxCalls
    /\ \E path \in ImportPaths, name \in ImportNames :
           /\ pkg_writer' = _import(pkg_writer, path, name)
           /\ last_call' =
                  [op |-> "_import", path |-> path, name |-> name,
                   field |-> NoField,
                   v |-> _import_result(path, name),
                   again |-> \E r \in requested :
                                 Module(r[1]) = Module(path) /\ r[2] = name,
                   before |-> pkg_writer]
           /\ requested' =
                  requested \cup {<<path, name, _import_result(path, name)>>}
    /\ calls' = calls + 1
    /\ UNCHANGED <<procvars, rendered>>

\* self.write()
WriteCall ==
    /\ rendered' = write(pkg_writer)
    /\ last_call' = [NoCall EXCEPT !.op = "write", !.before = pkg_writer]
    /\ UNCHANGED <<procvars, pkg_writer, requested, calls>>

InitCalls ==
    /\ entry = "main"
    /\ stdin = [wellformed |-> TRUE, request |-> request]
    /\ pc = "calls"
    /\ todo = <<>>
    /\ stack = <<>>
    /\ response = NoResponse
    /\ stdout = <<>>
    /\ stderr = <<>>
    /\ run = 1
    /\ prev_stdout = <<>>
    /\ prev_hashseed = 0
    /\ requested = {}
    /\ rendered = ""
    /\ last_call = NoCall
    /\ calls = 0

\* a writer for a file without declarations
InitImports ==
    /\ hashseed \in 0..MaxHashSeed
    /\ request = Request(<<File("x/empty.proto", "", "proto3", <<>>, <<>>,
                                <<>>, <<>>, FALSE)>>, <<>>, "")
    /\ descriptors = Descriptors(request)
    /\ pkg_writer = PkgWriter(1)
    /\ InitCalls

NextImports == ImportCall \/ WriteCall

SpecImports == InitImports /\ [][NextImports]_vars

\* Four files: two whose names differ in a hyphen only, one without a
\* package, one in a directory with a dot in its name.
\*   x/my-svc.proto: package pkg; message M { message N {} } enum K { K0 = 0; }
\*   x/my_svc.proto: package pkg; message P {}
\*   top.proto:      message T { message U { enum V { V0 = 0; } } }
\*                   enum Color { RED = 0; }
\*   a.b/c.proto:    package q.r; message D {}
ResolveFiles ==
    <<File("x/my-svc.proto", "pkg", "proto3",
           <<Message("M", <<>>,
                 <<Message("N", <<>>, <<>>, <<>>, <<>>, FALSE)>>,
                 <<>>, <<>>, FALSE)>>,
           <<Enum("K", <<EnumValue("K0", 0)>>)>>, <<>>, <<>>, FALSE),
      File("x/my_svc.proto", "pkg", "proto3",
           <<Message("P", <<>>, <<>>, <<>>, <<>>, FALSE)>>,
           <<>>, <<>>, <<>>, FALSE),
      File("top.proto", "", "proto3",
           <<Message("T", <<>>,
                 <<Message("U", <<>>, <<>>,
                       <<Enum("V", <<EnumValue("V0", 0)>>)>>, <<>>, FALSE)>>,
                 <<>>, <<>>, FALSE)>>,
           <<Enum("Color", <<EnumValue("RED", 0)>>)>>, <<>>, <<>>, FALSE),
      File("a.b/c.proto", "q.r", "proto3",
           <<Message("D", <<>>, <<>>, <<>>, <<>>, FALSE)>>,
           <<>>, <<>>, <<>>, FALSE)>>

\* self._import_message(name), for a name of the index
ResolveCall ==
    /\ calls < MaxCalls
    /\ \E name \in DOMAIN descriptors.message_to_fd :
           /\ pkg_writer' = _import_message(pkg_writer, name)
           /\ last_call' =
                  [op |-> "_import_message", path |-> "", name |-> name,
                   field |-> NoField,
                   v |-> _import_message_result(pkg_writer.fd, name),
                   again |-> FALSE, before |-> pkg_writer]
    /\ calls' = calls + 1
    /\ UNCHANGED <<procvars, requested, rendered>>

\* the writer of any of the files
InitResolve ==
    /\ hashseed \in 0..MaxHashSeed
    /\ request = Request(ResolveFiles, <<>>, "")
    /\ descriptors = Descriptors(request)
    /\ \E fd \in 1..Len(ResolveFiles) : pkg_writer = PkgWriter(fd)
    /\ InitCalls

NextResolve == ResolveCall \/ WriteCall

SpecResolve == InitResolve /\ [][NextResolve]_vars

\* The fields python_type is called with, for a writer of one of
\* ResolveFiles: every kind of scalar, enums and messages of the writer's
\* file and of other files, nested ones, a name that no file defines, and
\* a tag that a later descriptor.proto may add.
TypeFields ==
    {Field("f", c[1], OPTIONAL, c[2], <<>>) :
        c \in ({"TYPE_STRING", "TYPE_INT32", "TYPE_DOUBLE", "TYPE_BOOL",
                "TYPE_BYTES", "TYPE_FUTURE"} \X {""})
              \cup ({"TYPE_ENUM"} \X {".pkg.K", ".Color", ".T.U.V"})
              \cup ({"TYPE_MESSAGE"} \X {".pkg.M.N", ".T", ".q.r.D", ".pkg.Gone"})}

\* self.python_type(field)
TypeCall ==
    /\ calls < MaxCalls
    /\ pkg_writer.ok
    /\ \E field \in TypeFields :
           /\ pkg_writer' = python_type(pkg_writer, field)
           /\ last_call' =
                  [op |-> "python_type", path |-> "", name |-> "",
                   field |-> field,
                   v |-> python_type_result(pkg_writer.fd, field),
                   again |-> \E r \in requested : r[1] = field,
                   before |-> pkg_writer]
           /\ requested' =
                  requested
                      \cup {<<field, python_type_result(pkg_writer.fd, field)>>}
    /\ calls' = calls + 1
    /\ UNCHANGED <<procvars, rendered>>

NextTypes == TypeCall \/ WriteCall

SpecTypes == InitResolve /\ [][NextTypes]_vars

----------------------------------------------------------------------------
(* The registry of imports *)

\* the (module, symbol) pairs that were requested
Pairs == {<<Module(r[1]), r[2]>> : r \in requested}

\* the (module, symbol, alias) of the import lines of a text, in the order
\* of the lines
RECURSIVE ParseImports(_, _, _)
ParseImports(lines, module, items) ==
    IF lines = <<>> THEN items
    ELSE IF startswith(lines[1], "from ")
    THEN ParseImports(Tail(lines), split(lines[1], " ")[2], items)
    ELSE IF startswith(lines[1], "    ")
    THEN ParseImports(Tail(lines), module,
             Append(items, <<module, split(lines[1], " ")[5],
                              DropLast(split(lines[1], " ")[7], 1)>>))
    ELSE ParseImports(Tail(lines), module, items)

\* C9: a request of _import for a (module, symbol) pair requested before
\* returns the alias returned before and leaves the registry as it was;
\* write() renders one import line for each pair requested, under one
\* header for each module, with the modules in lexicographic order and the
\* symbols of a module in lexicographic order.  A pair is the same pair
\* when its paths name the same module: _import takes "/" and "." alike
\* as the separator of a path.
C9_ImportIdempotence ==
    /\ (last_call.op = "_import" /\ last_call.again) =>
           /\ pkg_writer.imports = last_call.before.imports
           /\ \A r \in requested :
                  (Module(r[1]) = Module(last_call.path)
                       /\ r[2] = last_call.name) => r[3] = last_call.v
    /\ last_call.op = "write" =>
           \A lines \in {split(rendered, "\n")} :
           \A items \in {ParseImports(lines, "", <<>>)} :
               /\ Len(items) = Cardinality(Pairs)
               /\ {<<it[1], it[2]>> : it \in Range(items)} = Pairs
               /\ \A it \in Range(items) :
                      \E r \in requested :
                          it = <<Module(r[1]), r[2], r[3]>>
               /\ \A i, j \in 1..Len(items) :
                      i < j =>
                          \/ StrLess(items[i][1], items[j][1])
                          \/ /\ items[i][1] = items[j][1]
                             /\ StrLess(items[i][2], items[j][2])
               /\ Len(SelectSeq(lines, LAMBDA t : startswith(t, "from ")))
                      = Cardinality({p[1] : p \in Pairs})

\* write() was called after three requests for two symbols of one module
C9_Witness ==
    /\ last_call.op = "write"
    /\ calls = 3
    /\ Cardinality(Pairs) = 2
    /\ Cardinality({p[1] : p \in Pairs}) = 1
    /\ Cardinality({r[1] : r \in requested}) = 2

----------------------------------------------------------------------------
(* The resolution of type names *)

\* the name of the module generated for a file
ModuleOf(fd) ==
    replace(replace(DropLast(fd.name, 6), "-", "_"), "/", ".") \o "_pb2"

\* the alias under which a symbol of a module is imported
AliasOf(module, symbol) == replace(module, ".", "___") \o "___" \o symbol

\* a qualified name relative to the package of the file that defines it
Relative(name, fd) ==
    IF fd.package = "" THEN From(name, 1)
    ELSE From(name, Len(fd.package) + 2)

\* the dotted segments after the first one, each with its dot
RECURSIVE Residual(_)
Residual(segments) ==
    IF segments = <<>> THEN ""
    ELSE "." \o segments[1] \o Residual(Tail(segments))

\* for a name of the index, _import_message returns type___ and the
\* relative path, and records nothing, exactly when the file that defines
\* the name is the file of the writer; otherwise it records the import of
\* the first segment of the relative path from the module of the defining
\* file, and returns its alias followed by the other segments
C10_Resolution ==
    last_call.op = "_import_message" =>
        \A def \in {descriptors.message_to_fd[last_call.name]} :
        \A path \in {Relative(last_call.name, FileOf(def))} :
        \A segments \in {split(path, ".")} :
        \A module \in {ModuleOf(FileOf(def))} :
            IF def = pkg_writer.fd
            THEN /\ last_call.v = "type___" \o path
                 /\ pkg_writer.imports = last_call.before.imports
            ELSE /\ last_call.v # "type___" \o path
                 /\ last_call.v = AliasOf(module, segments[1])
                                      \o Residual(Tail(segments))
                 /\ module \in DOMAIN pkg_writer.imports
                 /\ pkg_writer.imports =
                        DictSetAdd(last_call.before.imports, module,
                            <<segments[1], AliasOf(module, segments[1])>>)

\* a writer records no import from the module of its own file
C10_NoSelfImport ==
    pc = "calls" =>
        ModuleOf(FileOf(pkg_writer.fd)) \notin DOMAIN pkg_writer.imports

\* a writer records an import from the module of its own file only when a
\* file of another name has the same module
C10_SelfImportOfNamesake ==
    (pc = "calls"
         /\ ModuleOf(FileOf(pkg_writer.fd)) \in DOMAIN pkg_writer.imports) =>
        \E fd \in Range(request.proto_file) :
            /\ fd.name # FileOf(pkg_writer.fd).name
            /\ ModuleOf(fd) = ModuleOf(FileOf(pkg_writer.fd))

----------------------------------------------------------------------------
(* References to types that no file defines *)

\* the messages among messages, and those nested in them, for which a class
\* is written: a message named by a reserved word is skipped with all that
\* is nested in it
RECURSIVE WrittenMessages(_)
WrittenMessages(messages) ==
    IF messages = <<>> THEN <<>>
    ELSE (IF messages[1].name \in PYTHON_RESERVED THEN <<>>
          ELSE <<messages[1]>> \o WrittenMessages(messages[1].nested_type))
             \o WrittenMessages(Tail(messages))

\* the name a field's type is looked up under: for a field of enum type the
\* name of the value type of the enum
LookedUp(f) ==
    IF f.type = "TYPE_ENUM" THEN f.type_name \o "Value" ELSE f.type_name

\* the names the generator e looks up for the file fd: the types of the
\* fields it writes, and the types of the methods it writes
Resolved(fd, e) ==
    (IF e = "main"
     THEN {LookedUp(f) : f \in
              {f \in UNION {Range(m.field) :
                               m \in Range(WrittenMessages(fd.message_type))} :
                  /\ f.name \notin PYTHON_RESERVED
                  /\ f.type \in {"TYPE_MESSAGE", "TYPE_GROUP", "TYPE_ENUM"}}}
     ELSE {})
    \cup
    (IF e = "grpc" \/ fd.options.py_generic_services
     THEN UNION {{m.input_type, m.output_type} :
              m \in {m \in UNION {Range(sv.method) :
                                     sv \in {sv \in Range(fd.service) :
                                                sv.name \notin PYTHON_RESERVED}} :
                        m.name \notin PYTHON_RESERVED}}
     ELSE {})

\* the files of the request that are to be generated
Requested(req) ==
    {fd \in Range(req.proto_file) : fd.name \in Range(req.file_to_generate)}

\* the process ended without a response
NoResponseWritten == pc = "aborted" /\ stdout = <<>>

\* C11 as it is claimed: when a file to generate refers to a type name
\* that the index does not hold, in a field of a message, in an extension
\* field or in a method of a service, the process ends without a response.
C11_Claimed ==
    (Ended /\ stdin.wellformed
        /\ \E fd \in Requested(stdin.request) :
               ~(TypeRefs(fd) \subseteq Indexed(stdin.request)))
      => NoResponseWritten

\* C11: when the generator looks up, for a file to generate, a type name
\* that the index does not hold (the type of a field it writes, for a field
\* of enum type the name of its value type, or the input or output type of
\* a method it writes), the process ends without a response.
C11_BrokenReferencesAbort ==
    (Ended /\ stdin.wellformed
        /\ \E fd \in Requested(stdin.request) :
               ~(Resolved(fd, entry) \subseteq Indexed(stdin.request)))
      => NoResponseWritten

\* the general generator ended without a response on a request whose
\* second file has a field of an enum that no file defines, after the
\* stub of the first file was added to the response
C11_Witness ==
    /\ NoResponseWritten
    /\ entry = "main"
    /\ response.file # <<>>
    /\ \E fd \in Requested(stdin.request) :
           ".pkg.GoneValue" \in Resolved(fd, entry)

----------------------------------------------------------------------------
(* The type mapping *)

\* the (module, symbol, alias) entries of a writer's registry of imports
Registered(w) ==
    UNION {{<<m, p[1], p[2]>> : p \in w.imports[m]} : m \in DOMAIN w.imports}

\* the builtin names a writer will alias
Aliased(w) == w.builtin_vars \cup w.py2_builtin_vars

\* a call of python_type that returned
Mapped == last_call.op = "python_type" /\ pkg_writer.ok

\* the returned expression is the one every earlier call with the same
\* field returned
C13_SameExpression ==
    Mapped =>
        \A r \in requested : r[1] = last_call.field => r[2] = last_call.v

\* the call wrote no line, moved no indentation and declared no local
C13_NoText ==
    Mapped =>
        /\ pkg_writer.lines = last_call.before.lines
        /\ pkg_writer.indent = last_call.before.indent
        /\ pkg_writer.locals = last_call.before.locals
        /\ pkg_writer.fd = last_call.before.fd

\* every import the call recorded is of a name the returned expression
\* starts with
C13_NoUnusedImport ==
    Mapped =>
        \A r \in Registered(pkg_writer) \ Registered(last_call.before) :
            startswith(last_call.v, r[3])

\* every builtin alias the call recorded is the returned expression
C13_NoUnusedBuiltin ==
    Mapped =>
        \A b \in Aliased(pkg_writer) \ Aliased(last_call.before) :
            last_call.v = _mangle_builtin(b)

\* C13: python_type returns the same expression every time it is called
\* with the same field on the same writer, and a call changes nothing of
\* the writer but what the returned expression needs: it writes no text,
\* and it records no import and no builtin alias of a type that does not
\* occur in the returned expression.
C13_TypeMappingPure ==
    /\ C13_SameExpression
    /\ C13_NoText
    /\ C13_NoUnusedImport
    /\ C13_NoUnusedBuiltin

\* a string field was mapped twice on a writer that had aliased no builtin
C13_Witness ==
    /\ Mapped
    /\ last_call.again
    /\ last_call.field.type = "TYPE_STRING"
    /\ last_call.v = "typing___Text"
    /\ Cardinality(Aliased(pkg_writer)) = 4

\* C11, of the mapping table: a field whose type tag the table does not
\* hold makes python_type raise, whatever the writer held before.
C11_UnmappedTag ==
    (last_call.op = "python_type" /\ last_call.field.type \notin MappedTypes)
        => ~pkg_writer.ok

C11_UnmappedTagWitness ==
    /\ last_call.op = "python_type"
    /\ last_call.field.type = "TYPE_FUTURE"
    /\ ~pkg_writer.ok
    /\ calls = 2

----------------------------------------------------------------------------
(* The order of the literals *)

\* the names that a sequence of literals spells, in the order of the
\* literals: what stands between the quotes of each
NamesOf(literals) ==
    [k \in 1..Len(literals) |-> split(literals[k], "\"")[2]]

\* no name of the sequence is followed by a smaller one
Ascending(names) ==
    \A k \in 1..Len(names) - 1 : ~StrLess(names[k + 1], names[k])

\* the k-th literal union of every line of q lists its names in ascending
\* order
UnionsAscend(q, k) ==
    \A i \in 1..Len(q) : Ascending(NamesOf(split(Bracket(q[i], k), ",")))

\* the literal unions HasField and ClearField accept are in ascending order
C12_AcceptedStep ==
    ClosesMessage =>
        /\ \A has \in {Starting(Written, "def HasField(")} :
               UnionsAscend(has, 1)
        /\ \A clear \in {Starting(Written, "def ClearField(")} :
               UnionsAscend(clear, 1)
        /\ \A which \in {Starting(Written, "def WhichOneof(")} :
               UnionsAscend(which, 1)

C12_Accepted == [][C12_AcceptedStep]_vars

\* the literal union WhichOneof returns is in ascending order
C12_ReturnedStep ==
    ClosesMessage =>
        \A which \in {Starting(Written, "def WhichOneof(")} :
            UnionsAscend(which, 2)

\* C12: in every HasField, ClearField and WhichOneof signature that is
\* written, the names of each literal union, the union of the names that
\* WhichOneof returns included, stand in lexicographically ascending
\* order, whatever the order in which the message declares its fields.
C12_SortedLiteralUnions == [][C12_AcceptedStep /\ C12_ReturnedStep]_vars

----------------------------------------------------------------------------
(* The aliases of the imports *)

\* two calls of _import that ask for different symbols, or for symbols of
\* different modules, are given different aliases
C14_RequestsDiffer ==
    \A r1, r2 \in requested :
        (Module(r1[1]) # Module(r2[1]) \/ r1[2] # r2[2]) => r1[3] # r2[3]

\* the registry binds no alias to two (module, symbol) pairs
C14_RegistryDiffers ==
    \A e1, e2 \in Registered(pkg_writer) : e1[3] = e2[3] => e1 = e2

\* C14: two calls _import(p1, s1) and _import(p2, s2) whose module, the
\* path with "/" replaced by ".", or whose symbol differ return different
\* aliases, and the registry of a writer never binds one alias to two
\* different (module, symbol) pairs.
C14_AliasCollisionFree == C14_RequestsDiffer /\ C14_RegistryDiffers

\* every alias of the registry is the one _import derives from its module
\* and its symbol
C14_AliasDerived ==
    \A e \in Registered(pkg_writer) : e[3] = AliasOf(e[1], e[2])

----------------------------------------------------------------------------
(* The index of Descriptors *)

\* the most files of a request the index is built of
MaxFiles == 3

\* x/a.proto: package pkg; message M { message N { enum E } enum K };
\*            enum Color
\* x/b.proto: package pkg; message M {}; enum Color      (both in x/a.proto)
\* x/c.proto: package pkg.M; message N {}; enum K        (both in x/a.proto)
\* y/d.proto: no package; message T { message U {} }
\* y/e.proto: package q; message W {}; enum Z
IndexFiles ==
    {File("x/a.proto", "pkg", "proto3",
         <<Message("M", <<>>,
               <<Message("N", <<>>, <<>>,
                     <<Enum("E", <<EnumValue("E0", 0)>>)>>, <<>>, FALSE)>>,
               <<Enum("K", <<EnumValue("K0", 0)>>)>>, <<>>, FALSE)>>,
         <<Enum("Color", <<EnumValue("RED", 0)>>)>>, <<>>, <<>>, FALSE),
     File("x/b.proto", "pkg", "proto3",
         <<Message("M", <<Field("id", "TYPE_INT32", OPTIONAL, "", <<>>)>>,
               <<>>, <<>>, <<>>, FALSE)>>,
         <<Enum("Color", <<EnumValue("BLUE", 0)>>)>>, <<>>, <<>>, FALSE),
     File("x/c.proto", "pkg.M", "proto3",
         <<Message("N", <<>>, <<>>, <<>>, <<>>, FALSE)>>,
         <<Enum("K", <<EnumValue("K1", 0)>>)>>, <<>>, <<>>, FALSE),
     File("y/d.proto", "", "proto2",
         <<Message("T", <<>>,
               <<Message("U", <<>>, <<>>, <<>>, <<>>, FALSE)>>,
               <<>>, <<>>, FALSE)>>,
         <<>>, <<>>, <<>>, FALSE),
     File("y/e.proto", "q", "proto2",
         <<Message("W", <<>>, <<>>, <<>>, <<>>, FALSE)>>,
         <<Enum("Z", <<EnumValue("Z0", 0)>>)>>, <<>>, <<>>, FALSE)}

\* up to MaxFiles different files in any order; to generate are none of
\* them, the first, all, or a file the request does not hold
IndexRequests ==
    {Request(q, g, "") :
        q \in {q \in UNION {[1..n -> IndexFiles] : n \in 1..MaxFiles} :
                  \A i, j \in 1..Len(q) : q[i] = q[j] => i = j},
        g \in {<<>>, <<"x/a.proto">>, <<"y/e.proto", "x/b.proto">>,
               <<"y/gone.proto">>}}

InitIndex ==
    /\ hashseed = 0
    /\ request \in IndexRequests
    /\ descriptors = NoDescriptors
    /\ pkg_writer = NoWriter
    /\ InitCalls

\* Descriptors(request)
IndexCall ==
    /\ calls = 0
    /\ descriptors' = Descriptors(request)
    /\ last_call' = [NoCall EXCEPT !.op = "Descriptors"]
    /\ calls' = 1
    /\ UNCHANGED <<entry, stdin, hashseed, pc, request, todo, stack, response,
                   stdout, stderr, run, prev_stdout, prev_hashseed,
                   pkg_writer, requested, rendered>>

\* self.messages[name] and self.message_to_fd[name] of the index built
LookupCall ==
    /\ calls = 1
    /\ descriptors.ok
    /\ \E name \in DOMAIN descriptors.message_to_fd :
           last_call' =
               [NoCall EXCEPT !.op = "lookup", !.name = name,
                    !.path = FileOf(descriptors.message_to_fd[name]).name]
    /\ calls' = 2
    /\ UNCHANGED <<procvars, pkg_writer, requested, rendered>>

NextIndex == IndexCall \/ LookupCall

SpecIndex == InitIndex /\ [][NextIndex]_vars

\* the messages and enums declared in a list of messages and below it,
\* each as (qualified name, "message" or "enum", definition)
RECURSIVE DeclaredBelow(_, _)
DeclaredBelow(messages, prefix) ==
    UNION {{<<prefix \o m.name, "message", m>>}
               \cup {<<prefix \o m.name \o "." \o e.name, "enum", e>> :
                        e \in Range(m.enum_type)}
               \cup DeclaredBelow(m.nested_type, prefix \o m.name \o ".")
           : m \in Range(messages)}

\* the prefix of the names of a file: a dot, and its package with a dot
\* if it has one
Root(fd) == IF fd.package = "" THEN "." ELSE "." \o fd.package \o "."

\* the definitions of the i-th file of a request
DefinitionsOf(req, i) ==
    DeclaredBelow(req.proto_file[i].message_type, Root(req.proto_file[i]))
        \cup {<<Root(req.proto_file[i]) \o e.name, "enum", e>> :
                 e \in Range(req.proto_file[i].enum_type)}

\* the qualified names that two definitions of the request have
Duplicates(req) ==
    {n \in UNION {{d[1] : d \in DefinitionsOf(req, i)} :
                     i \in 1..Len(req.proto_file)} :
        \E i, j \in 1..Len(req.proto_file) :
            /\ i # j
            /\ n \in {d[1] : d \in DefinitionsOf(req, i)}
            /\ n \in {d[1] : d \in DefinitionsOf(req, j)}}

\* the index holds the definition d of the i-th file: under its name the
\* file, for a message the message too, and for an enum the file under
\* the name of its value type as well
Recorded(ix, d, i) ==
    /\ d[1] \in DOMAIN ix.message_to_fd
    /\ ix.message_to_fd[d[1]] = i
    /\ d[2] = "message" =>
           d[1] \in DOMAIN ix.messages /\ ix.messages[d[1]] = d[3]
    /\ d[2] = "enum" =>
           /\ d[1] \o "Value" \in DOMAIN ix.message_to_fd
           /\ ix.message_to_fd[d[1] \o "Value"] = i

\* Descriptors was constructed, or raised
Constructed == last_call.op = "Descriptors"

\* when two definitions have one qualified name, the construction raises
C15_DuplicatesRaise ==
    (Constructed /\ Duplicates(request) # {}) => ~descriptors.ok

\* when no two definitions have one qualified name, it does not raise
C15_NothingElseRaises ==
    (Constructed /\ Duplicates(request) = {}) => descriptors.ok

\* an index that was constructed holds every definition of every file
C15_RecordsAll ==
    (Constructed /\ descriptors.ok) =>
        \A i \in 1..Len(request.proto_file) :
            \A d \in DefinitionsOf(request, i) :
                Recorded(descriptors, d, i)

\* C15: Descriptors records every message and enum of every file of the
\* request, nested at whatever depth, under its qualified name with its
\* file, and every enum under the name of its value type as well; when
\* two definitions have one qualified name the construction raises, and
\* it raises in no other case.
C15_IndexConstruction ==
    /\ C15_DuplicatesRaise
    /\ C15_NothingElseRaises
    /\ C15_RecordsAll

\* the construction raises exactly when a file to generate is not among
\* the files of the request
C15_Raises ==
    Constructed =>
        (descriptors.ok <=>
            Range(request.file_to_generate)
                \subseteq {fd.name : fd \in Range(request.proto_file)})

\* of definitions whose names are not duplicated, all are recorded, and
\* the index holds no other name
C15_Records ==
    (Constructed /\ descriptors.ok) =>
        /\ \A i \in 1..Len(request.proto_file) :
               \A d \in DefinitionsOf(request, i) :
                   d[1] \notin Duplicates(request) =>
                       Recorded(descriptors, d, i)
        /\ \A n \in DOMAIN descriptors.message_to_fd :
               \E d \in DefinitionsOf(request, descriptors.message_to_fd[n]) :
                   n = d[1] \/ (d[2] = "enum" /\ n = d[1] \o "Value")

\* of the definitions that have one name, the one of the last file is
\* kept
C15_LastKept ==
    (Constructed /\ descriptors.ok) =>
        \A n \in Duplicates(request) :
            /\ n \in DOMAIN descriptors.message_to_fd
            /\ \A i \in 1..Len(request.proto_file) :
                   n \in {d[1] : d \in DefinitionsOf(request, i)} =>
                       i <= descriptors.message_to_fd[n]

============================================================================
